---- MODULE Spec2Model ----
(***************************************************************************)
(* Model of the scrape orchestration core of aliai:                        *)
(*   - RateLimiter, ProxyManager and AliExpressScraper._make_request        *)
(*     (src/aliai/scraper.py)                                              *)
(*   - the master_products work queue (src/aliai/database.py) and the jobs *)
(*     that drive it (src/aliai/jobs/*.py).                                *)
(* Each component has its own specification over the shared variables; the *)
(* variables of the other component stay at their initial value.           *)
(***************************************************************************)
EXTENDS Integers, Sequences, FiniteSets, TLC

VARIABLES
    \* ---- RateLimiter ----
    now,              \* time.time(), in whole seconds
    minute_requests,  \* RateLimiter.minute_requests
    hour_requests,    \* RateLimiter.hour_requests
    lock,             \* holder of RateLimiter.lock (an asyncio.Lock), or NoCaller
    pc,               \* per caller: position inside acquire()
    wake,             \* per caller: time at which its asyncio.sleep() ends
    admitted,         \* per caller: times at which its acquire() calls returned
    clients,          \* the callers that use the limiter in this run
    nticks,           \* number of clock advances so far
    \* ---- work queue (table master_products) and the jobs on it ----
    dbnow,              \* ClickHouse now(), in whole hours
    dbticks,            \* number of advances of dbnow so far
    master_products,    \* product_id -> row of master_products, or NoRow
    batch_pc,           \* update_products_batch: "idle" or "running"
    batch_args,         \* its arguments (batch_size, priority_min, status_filter)
    products_to_scrape, \* the list it pulled
    batch_idx,          \* index of the next product_info of the for loop
    successful_updates, \* its counter
    inactive_at_pull,   \* ids that were inactive (or absent) when it pulled
    run_log,            \* per iteration of its for loop: product, outcome, status calls, sleeps
    demoted,            \* ids that cleanup_failed_products has set to skipped
    nops,               \* number of job/store operations started so far
    budget,             \* number of job/store operations of this behaviour
    last,               \* the last operation: name, ids, argument, return value
    \* ---- ProxyManager and AliExpressScraper._make_request ----
    proxy_list,       \* ProxyManager.proxy_list (configuration)
    rotation,         \* ProxyManager.rotation (configuration)
    proxy_enabled,    \* config.proxy.enabled
    failed_proxies,   \* ProxyManager.failed_proxies
    current_index,    \* ProxyManager.current_index
    got,              \* what the last get_proxy() call returned
    failed_before,    \* failed_proxies when that call was made
    ngets,            \* number of get_proxy() calls made from outside _make_request
    fetch_pc,         \* _make_request: "idle", "acquire" or "attempt"
    fetch_retries,    \* its `retries`
    attempt,          \* its loop variable
    fetch_proxy,      \* its `proxy`
    slept,            \* the asyncio.sleep() durations of its backoff, in order
    attempt_log,      \* its session.get() attempts, in order: "response" or "exception"
    acq_base,         \* acquire() calls of the scraper that had returned when it started
    fetch_result,     \* how the last _make_request ended
    nfetch,           \* number of _make_request calls so far
    \* ---- job entry points (src/aliai/jobs/*.py) under store failures ----
    job_out,          \* how the last job call ended: job, failed store call, value, raised
                      \* (and, for discover_category_ids, the products on its pages)
    disc_pc,          \* discover_all_category_ids: "idle" or "running"
    disc_idx,         \* index of the next category of its for loop
    disc_results,     \* its `results` dict
    disc_visits,      \* the categories its loop has called discover_category_ids for
    \* ---- scheduled pipelines (src/airflow/dags/master_product_pipeline.py) ----
    dag_runs,         \* per DAG: its active runs, each with the state of its tasks
                      \* and the products its tasks have fetched, in order
    first_seen        \* per product: when it was first discovered, or NoTime

rlvars == <<now, minute_requests, hour_requests, lock, pc, wake, admitted, clients, nticks>>

wqvars == <<dbnow, dbticks, master_products, batch_pc, batch_args, products_to_scrape,
            batch_idx, successful_updates, inactive_at_pull, run_log, demoted, nops,
            budget, last>>

ftvars == <<proxy_list, rotation, proxy_enabled, failed_proxies, current_index, got,
            failed_before, ngets, fetch_pc, fetch_retries, attempt, fetch_proxy, slept,
            attempt_log, acq_base, fetch_result, nfetch>>

jbvars == <<job_out, disc_pc, disc_idx, disc_results, disc_visits>>

scvars == <<dag_runs, first_seen>>

vars == <<rlvars, wqvars, ftvars, jbvars, scvars>>

(***************************************************************************)
(* Bounds of the model                                                     *)
(***************************************************************************)
MaxCalls == 4          \* acquire() calls made by one caller
MaxTicks == 3          \* the clock advances at most this many times
requests_per_minute == 2
requests_per_hour == 3

Callers == {"a", "b"}
NoCaller == "none"
TickSteps == {30, 3540}

(***************************************************************************)
(* Program constants                                                       *)
(***************************************************************************)
MinuteWindow == 60
HourWindow == 3600

(***************************************************************************)
(* RateLimiter                                                             *)
(***************************************************************************)
\* [req_time for req_time in requests if now - req_time < window]
CleanOld(requests, t, window) ==
    SelectSeq(requests, LAMBDA req_time : t - req_time < window)

MinuteFull_offbyone(mr) == Len(mr) > requests_per_minute
\* len(self.minute_requests) >= self.requests_per_minute
MinuteFull(mr) == Len(mr) >= requests_per_minute

HourFull_offbyone(hr) == Len(hr) > requests_per_hour
\* len(self.hour_requests) >= self.requests_per_hour
HourFull(hr) == Len(hr) >= requests_per_hour

RLInit ==
    /\ now = 0
    /\ minute_requests = <<>>
    /\ hour_requests = <<>>
    /\ lock = NoCaller
    /\ clients \in {{"a"}, {"a", "b"}}
    /\ pc = [c \in Callers |-> "idle"]
    /\ wake = [c \in Callers |-> 0]
    /\ admitted = [c \in Callers |-> <<>>]
    /\ nticks = 0

\* A client calls rate_limiter.acquire(); its next step is `async with self.lock`.
Call(c) ==
    /\ c \in clients
    /\ pc[c] = "idle"
    /\ Len(admitted[c]) < MaxCalls
    /\ pc' = [pc EXCEPT ![c] = "acquire"]
    /\ UNCHANGED <<now, minute_requests, hour_requests, lock, wake, admitted, clients, nticks>>
    /\ UNCHANGED <<wqvars, ftvars, jbvars, scvars>>

\* The lock is free, the minute window is at capacity: the caller keeps the
\* lock and sleeps until the oldest entry of the minute window expires.
AcquireMinuteFull(c) ==
    /\ pc[c] = "acquire"
    /\ lock = NoCaller
    /\ LET mr == CleanOld(minute_requests, now, MinuteWindow)
           hr == CleanOld(hour_requests, now, HourWindow)
       IN  /\ MinuteFull(mr)
           /\ minute_requests' = mr
           /\ hour_requests' = hr
           /\ wake' = [wake EXCEPT ![c] = now + (MinuteWindow - (now - mr[1]))]
    /\ lock' = c
    /\ pc' = [pc EXCEPT ![c] = "sleep"]
    /\ UNCHANGED <<now, admitted, clients, nticks>>
    /\ UNCHANGED <<wqvars, ftvars, jbvars, scvars>>

\* The lock is free, the minute window has room, the hour window is at capacity.
AcquireHourFull(c) ==
    /\ pc[c] = "acquire"
    /\ lock = NoCaller
    /\ LET mr == CleanOld(minute_requests, now, MinuteWindow)
           hr == CleanOld(hour_requests, now, HourWindow)
       IN  /\ ~MinuteFull(mr)
           /\ HourFull(hr)
           /\ minute_requests' = mr
           /\ hour_requests' = hr
           /\ wake' = [wake EXCEPT ![c] = now + (HourWindow - (now - hr[1]))]
    /\ lock' = c
    /\ pc' = [pc EXCEPT ![c] = "sleep"]
    /\ UNCHANGED <<now, admitted, clients, nticks>>
    /\ UNCHANGED <<wqvars, ftvars, jbvars, scvars>>

\* The lock is free and both windows have room: the request is recorded and
\* the lock released on leaving the `async with` block (no suspension point
\* lies between taking the lock and releasing it).
AcquireAdmit(c) ==
    /\ pc[c] = "acquire"
    /\ lock = NoCaller
    /\ LET mr == CleanOld(minute_requests, now, MinuteWindow)
           hr == CleanOld(hour_requests, now, HourWindow)
       IN  /\ ~MinuteFull(mr)
           /\ ~HourFull(hr)
           /\ minute_requests' = Append(mr, now)
           /\ hour_requests' = Append(hr, now)
    /\ admitted' = [admitted EXCEPT ![c] = Append(@, now)]
    /\ pc' = [pc EXCEPT ![c] = "idle"]
    /\ UNCHANGED <<now, lock, wake, clients, nticks>>
    /\ UNCHANGED <<wqvars, ftvars, jbvars, scvars>>

\* asyncio.sleep(sleep_time) is over: `return await self.acquire()` re-enters
\* acquire() from inside the `async with self.lock` block, so the lock is
\* still held by this caller's outer activation (asyncio.Lock is not
\* reentrant).
AcquireWake(c) ==
    /\ pc[c] = "sleep"
    /\ now >= wake[c]
    /\ pc' = [pc EXCEPT ![c] = "acquire"]
    /\ UNCHANGED <<now, minute_requests, hour_requests, lock, wake, admitted, clients, nticks>>
    /\ UNCHANGED <<wqvars, ftvars, jbvars, scvars>>

\* Time passes.
Tick(d) ==
    /\ nticks < MaxTicks
    /\ now' = now + d
    /\ nticks' = nticks + 1
    /\ UNCHANGED <<minute_requests, hour_requests, lock, pc, wake, admitted, clients>>
    /\ UNCHANGED <<wqvars, ftvars, jbvars, scvars>>

(***************************************************************************)
(* Work queue: the table master_products (src/aliai/database.py)           *)
(***************************************************************************)
Ids == {1, 2, 3}
Categories == {"catA", "catB"}
Statuses == {"pending", "scraped", "failed", "skipped"}
NoRow == [absent |-> TRUE]
NoTime == -1            \* last_scraped_at of a row that was never scraped

HoursPerDay == 24
InitialPriority == 5
MaxPriority == 10
MinPriority == 1
NewProductPriority == 8
CategoryBoost == 2
ErrorPenalty == 1
ErrorPenaltyFrom == 3
HighPriorityMin == 8

\* Inputs the operations are called with.
DbTickSteps == {24}
Limits == {1, 3}
PriorityFloors == {1, 8}
DayThresholds == {1}
ErrorThresholds == {1, 5}
BoostAmounts == {-5, 3}
HotSets == {{}, {"catA"}}
ScrapeOutcomes == {"none", "product", "raise"}

\* Bounds of the exploration.
MaxOps == 3             \* job/store operations started in one behaviour
MaxDbTicks == 2         \* advances of the database clock
MaxErrors == 6          \* error_count is not driven beyond this
LifeOps == 9            \* operations in one behaviour of LifeSpec
BatchOps == 3           \* operations in one behaviour of BatchSpec
MaintOps == 2           \* operations in one behaviour of MaintSpec
PrioOps == 2            \* operations in one behaviour of PrioSpec
JobOps == 2             \* job calls in one behaviour of JobSpec
QueryOps == 1           \* operations in one behaviour of QuerySpec
BatchLimit == 3
ErrorThreshold == 5
PriorityDepth == 6      \* scrape_priority is not driven below -PriorityDepth

Present(mp) == {id \in Ids : mp[id] # NoRow}

\* category_name goes with category_id (ALIEXPRESS_CATEGORIES lookup).
CategoryName(cat) == <<"name", cat>>
ProductUrl(id) == <<"item", id>>

Least(a, b) == IF a < b THEN a ELSE b
Greatest(a, b) == IF a > b THEN a ELSE b

\* The VALUES clause of insert_master_product: every column of the row is
\* given by the INSERT; last_scraped_at takes the column default.
NewRow_urgent(id, cat, t) ==
    [ product_id      |-> id,
      product_url     |-> ProductUrl(id),
      category_id     |-> cat,
      category_name   |-> CategoryName(cat),
      discovered_at   |-> t,
      scrape_status   |-> "pending",
      scrape_priority |-> MaxPriority,
      error_count     |-> 0,
      is_active       |-> TRUE,
      last_scraped_at |-> NoTime ]
NewRow(id, cat, t) ==
    [ product_id      |-> id,
      product_url     |-> ProductUrl(id),
      category_id     |-> cat,
      category_name   |-> CategoryName(cat),
      discovered_at   |-> t,
      scrape_status   |-> "pending",
      scrape_priority |-> InitialPriority,
      error_count     |-> 0,
      is_active       |-> TRUE,
      last_scraped_at |-> NoTime ]

\* The table keeps one row per product_id: an INSERT of a known product_id
\* replaces its row (ReplacingMergeTree keyed by product_id, merged view).
ReplaceRow(mp, id, row) == [mp EXCEPT ![id] = row]

InsertMasterProduct_bumps(mp, id, cat, t) ==
    IF mp[id] = NoRow
    THEN ReplaceRow(mp, id, NewRow(id, cat, t))
    ELSE ReplaceRow(mp, id, [NewRow(id, cat, t) EXCEPT
                               !.scrape_priority = Least(mp[id].scrape_priority + 1, MaxPriority)])
\* insert_master_product(product_id, product_url, category_id, category_name)
InsertMasterProduct(mp, id, cat, t) == ReplaceRow(mp, id, NewRow(id, cat, t))

\* batch_insert_master_products: one insert_master_product per product of the
\* list; returns [mp, n] with n the number of inserts that returned True.
RECURSIVE BatchInsert(_, _, _, _, _)
BatchInsert(mp, ids, cat, t, n) ==
    IF ids = {} THEN [mp |-> mp, n |-> n]
    ELSE LET id == CHOOSE x \in ids : \A y \in ids : x <= y
         IN  BatchInsert(InsertMasterProduct(mp, id, cat, t), ids \ {id}, cat, t, n + 1)

\* WHERE clause of get_products_to_scrape.
Matches_noactive(row, priority_threshold, status_filter) ==
    /\ row.scrape_status = status_filter
    /\ row.scrape_priority >= priority_threshold
Matches(row, priority_threshold, status_filter) ==
    /\ row.scrape_status = status_filter
    /\ row.scrape_priority >= priority_threshold
    /\ row.is_active

Matching(mp, priority_threshold, status_filter) ==
    {id \in Present(mp) : Matches(mp[id], priority_threshold, status_filter)}

\* ORDER BY scrape_priority DESC, discovered_at ASC: r1 may come before r2.
OrderedBefore_newestfirst(r1, r2) ==
    \/ r1.scrape_priority > r2.scrape_priority
    \/ r1.scrape_priority = r2.scrape_priority /\ r1.discovered_at >= r2.discovered_at
OrderedBefore(r1, r2) ==
    \/ r1.scrape_priority > r2.scrape_priority
    \/ r1.scrape_priority = r2.scrape_priority /\ r1.discovered_at <= r2.discovered_at

\* All orders in which the ORDER BY may deliver the set S of rows (rows equal
\* in both keys come in an order SQL leaves open).
Orderings(mp, S) ==
    {q \in [1..Cardinality(S) -> S] :
        /\ \A i, j \in 1..Cardinality(S) : i # j => q[i] # q[j]
        /\ \A i, j \in 1..Cardinality(S) : i < j => OrderedBefore(mp[q[i]], mp[q[j]])}

\* get_products_to_scrape(limit, priority_threshold, status_filter): the
\* possible results, as lists of product_id.
GetProductsToScrape(mp, limit, priority_threshold, status_filter) ==
    LET S == Matching(mp, priority_threshold, status_filter)
    IN  {SubSeq(q, 1, Least(limit, Cardinality(S))) : q \in Orderings(mp, S)}

\* update_scrape_status(product_id, status): ALTER TABLE ... UPDATE ... WHERE
\* product_id = ...; no row is touched when the id is unknown.
UpdateScrapeStatus_noincrement(mp, id, status, t) ==
    IF mp[id] = NoRow THEN mp
    ELSE IF status = "scraped"
         THEN [mp EXCEPT ![id].scrape_status = "scraped", ![id].last_scraped_at = t]
         ELSE [mp EXCEPT ![id].scrape_status = status]
UpdateScrapeStatus(mp, id, status, t) ==
    IF mp[id] = NoRow THEN mp
    ELSE IF status = "failed"
         THEN [mp EXCEPT ![id].scrape_status = "failed",
                         ![id].error_count = @ + 1]
         ELSE IF status = "scraped"
              THEN [mp EXCEPT ![id].scrape_status = "scraped",
                              ![id].last_scraped_at = t]
              ELSE [mp EXCEPT ![id].scrape_status = status]

\* mark_inactive_products(days_threshold): the UPDATE.
MarkInactive_anystatus(mp, days, t) ==
    [id \in Ids |->
        IF /\ mp[id] # NoRow
           /\ mp[id].discovered_at < t - days * HoursPerDay
           /\ mp[id].is_active
        THEN [mp[id] EXCEPT !.is_active = FALSE]
        ELSE mp[id]]
MarkInactive(mp, days, t) ==
    [id \in Ids |->
        IF /\ mp[id] # NoRow
           /\ mp[id].discovered_at < t - days * HoursPerDay
           /\ mp[id].is_active
           /\ mp[id].scrape_status = "pending"
        THEN [mp[id] EXCEPT !.is_active = FALSE]
        ELSE mp[id]]

\* mark_inactive_products: the count query that makes the return value.
MarkInactiveCount(mp, t) ==
    Cardinality({id \in Present(mp) :
        ~mp[id].is_active /\ mp[id].discovered_at >= t - 1})

\* cleanup_failed_products(error_threshold): the UPDATE.
CleanupFailed_above(mp, error_threshold) ==
    [id \in Ids |->
        IF /\ mp[id] # NoRow
           /\ mp[id].error_count > error_threshold
           /\ mp[id].scrape_status = "failed"
        THEN [mp[id] EXCEPT !.scrape_status = "skipped"]
        ELSE mp[id]]
CleanupFailed_anystatus(mp, error_threshold) ==
    [id \in Ids |->
        IF /\ mp[id] # NoRow
           /\ mp[id].error_count >= error_threshold
           /\ mp[id].scrape_status \in {"failed", "pending"}
        THEN [mp[id] EXCEPT !.scrape_status = "skipped"]
        ELSE mp[id]]
CleanupFailed(mp, error_threshold) ==
    [id \in Ids |->
        IF /\ mp[id] # NoRow
           /\ mp[id].error_count >= error_threshold
           /\ mp[id].scrape_status = "failed"
        THEN [mp[id] EXCEPT !.scrape_status = "skipped"]
        ELSE mp[id]]

\* cleanup_failed_products: the count query that makes the return value.
CleanupFailedCount(mp, error_threshold) ==
    Cardinality({id \in Present(mp) :
        mp[id].scrape_status = "skipped" /\ mp[id].error_count >= error_threshold})

\* calculate_priorities, first UPDATE: category boost; hot is the result of the
\* subquery over the products table (categories with more than 100 products
\* scraped in the last 7 days).
CategoryBoostRule(mp, hot) ==
    [id \in Ids |->
        IF /\ mp[id] # NoRow
           /\ mp[id].category_id \in hot
           /\ mp[id].scrape_status = "pending"
        THEN [mp[id] EXCEPT !.scrape_priority = Least(@ + CategoryBoost, MaxPriority)]
        ELSE mp[id]]

\* calculate_priorities, second UPDATE: error penalty.
ErrorPenaltyRule(mp) ==
    [id \in Ids |->
        IF /\ mp[id] # NoRow
           /\ mp[id].error_count >= ErrorPenaltyFrom
           /\ mp[id].scrape_status = "pending"
        THEN [mp[id] EXCEPT !.scrape_priority = Greatest(@ - ErrorPenalty, MinPriority)]
        ELSE mp[id]]

\* calculate_priorities, third UPDATE: new products.
NewProductRule(mp, t) ==
    [id \in Ids |->
        IF /\ mp[id] # NoRow
           /\ mp[id].discovered_at >= t - HoursPerDay
           /\ mp[id].scrape_status = "pending"
           /\ mp[id].scrape_priority < NewProductPriority
        THEN [mp[id] EXCEPT !.scrape_priority = NewProductPriority]
        ELSE mp[id]]

\* calculate_priorities: the three UPDATEs, in the order they are executed.
CalculatePrioritiesUpdates_newfirst(mp, hot, t) ==
    ErrorPenaltyRule(NewProductRule(CategoryBoostRule(mp, hot), t))
CalculatePrioritiesUpdates(mp, hot, t) ==
    NewProductRule(ErrorPenaltyRule(CategoryBoostRule(mp, hot)), t)

\* calculate_priorities / boost_category_priority: the count query that makes
\* the return value (rows scraped within the last hour).
RecentlyScrapedCount(mp, S, t) ==
    Cardinality({id \in S : mp[id].last_scraped_at >= t - 1})

\* boost_category_priority(category_id, boost_amount): the UPDATE.
BoostCategory(mp, cat, boost_amount) ==
    [id \in Ids |->
        IF /\ mp[id] # NoRow
           /\ mp[id].category_id = cat
           /\ mp[id].scrape_status = "pending"
           /\ mp[id].is_active
        THEN [mp[id] EXCEPT !.scrape_priority = Least(@ + boost_amount, MaxPriority)]
        ELSE mp[id]]

\* insert_product(product): builds its parameter dict from product.subcategory_id,
\* product.subcategory_name and product.sku, which ProductData does not have;
\* the AttributeError is caught and the method returns False.
InsertProduct(product) == FALSE

\* scrape_product + insert_product for one product: TRUE iff the product was
\* scraped and stored.
Scraped(outcome) == outcome = "product" /\ InsertProduct(outcome)

\* The update_scrape_status calls of one iteration of the for loop of
\* update_products_batch, in order: scraped after a stored product, failed
\* after a failed insert, after scrape_product returned None, and in the
\* except branch.
ItemMarks_silentraise(outcome) ==
    IF outcome = "raise" THEN <<>>
    ELSE IF outcome = "product"
         THEN IF InsertProduct(outcome) THEN <<"scraped">> ELSE <<"failed">>
         ELSE <<"failed">>
ItemMarks(outcome) ==
    IF outcome = "raise" THEN <<"failed">>
    ELSE IF outcome = "product"
         THEN IF InsertProduct(outcome) THEN <<"scraped">> ELSE <<"failed">>
         ELSE <<"failed">>

\* successful_updates += 1 of that iteration.
ItemSuccess_countsall(outcome) == IF outcome = "product" THEN 1 ELSE 0
ItemSuccess(outcome) ==
    IF outcome = "product" /\ InsertProduct(outcome) THEN 1 ELSE 0

\* The asyncio.sleep() calls of that iteration: the sleep is the last
\* statement of the try block, the except branch has none.
PolitenessDelay == 1
ItemSleeps(outcome) == IF outcome = "raise" THEN <<>> ELSE <<PolitenessDelay>>

\* The update_scrape_status calls `marks` for product id, applied in order.
RECURSIVE ApplyMarks(_, _, _, _)
ApplyMarks(mp, id, marks, t) ==
    IF marks = <<>> THEN mp
    ELSE ApplyMarks(UpdateScrapeStatus(mp, id, Head(marks), t), id, Tail(marks), t)

(***************************************************************************)
(* Work queue: operations                                                  *)
(***************************************************************************)
Op(op, ids, s, n, ret, repeat) ==
    [op |-> op, ids |-> ids, s |-> s, n |-> n, ret |-> ret, repeat |-> repeat]

Bool(b) == IF b THEN 1 ELSE 0

Changed(mp1, mp2) == {id \in Ids : mp1[id] # mp2[id]}

NoArgs == [limit |-> 0, priority_min |-> 0, status_filter |-> ""]

JobVars == <<batch_pc, batch_args, products_to_scrape, batch_idx,
             successful_updates, inactive_at_pull, run_log>>

WQInit ==
    /\ dbnow = 0
    /\ dbticks = 0
    /\ master_products = [id \in Ids |-> NoRow]
    /\ batch_pc = "idle"
    /\ batch_args = NoArgs
    /\ products_to_scrape = <<>>
    /\ batch_idx = 0
    /\ successful_updates = 0
    /\ inactive_at_pull = {}
    /\ run_log = <<>>
    /\ demoted = {}
    /\ nops = 0
    /\ last = Op("init", {}, "", 0, 0, FALSE)

\* batch_insert_master_products(products_list), the list holding the products
\* `ids` discovered in category `cat` (discover_category_ids).
UpsertBatch(ids, cat) ==
    /\ nops < budget
    /\ LET r == BatchInsert(master_products, ids, cat, dbnow, 0)
       IN  /\ master_products' = r.mp
           /\ last' = Op("upsert", ids, cat, 0, r.n,
                         last.op = "upsert" /\ last.ids = ids /\ last.s = cat)
    /\ nops' = nops + 1
    /\ UNCHANGED <<demoted, dbnow, dbticks, budget>>
    /\ UNCHANGED JobVars
    /\ UNCHANGED <<rlvars, ftvars, jbvars, scvars>>

\* update_scrape_status(product_id, status)
MarkStatus(id, status) ==
    /\ nops < budget
    /\ status = "failed" /\ master_products[id] # NoRow
          => master_products[id].error_count < MaxErrors
    /\ master_products' = UpdateScrapeStatus(master_products, id, status, dbnow)
    /\ last' = Op("mark_status", {id}, status, 0, 1, FALSE)
    /\ nops' = nops + 1
    /\ UNCHANGED <<demoted, dbnow, dbticks, budget>>
    /\ UNCHANGED JobVars
    /\ UNCHANGED <<rlvars, ftvars, jbvars, scvars>>

\* update_products_batch(batch_size, priority_min, status_filter), up to the
\* for loop: get_products_to_scrape returned a non-empty list.
RunBatchPull(batch_size, priority_min, status_filter) ==
    /\ nops < budget
    /\ batch_pc = "idle"
    /\ \E q \in GetProductsToScrape(master_products, batch_size, priority_min, status_filter) :
        /\ q # <<>>
        /\ products_to_scrape' = q
    /\ batch_args' = [limit |-> batch_size, priority_min |-> priority_min,
                      status_filter |-> status_filter]
    /\ inactive_at_pull' = {id \in Ids : master_products[id] = NoRow
                                          \/ ~master_products[id].is_active}
    /\ batch_pc' = "running"
    /\ batch_idx' = 1
    /\ run_log' = <<>>
    /\ successful_updates' = 0
    /\ last' = Op("pull", {}, "", 0, 0, FALSE)
    /\ nops' = nops + 1
    /\ UNCHANGED <<demoted, dbnow, dbticks, budget, master_products>>
    /\ UNCHANGED <<rlvars, ftvars, jbvars, scvars>>

\* update_products_batch when get_products_to_scrape returns nothing:
\* "No products found to update", return 0.
RunBatchEmpty(batch_size, priority_min, status_filter) ==
    /\ nops < budget
    /\ batch_pc = "idle"
    /\ <<>> \in GetProductsToScrape(master_products, batch_size, priority_min, status_filter)
    /\ last' = Op("pull_empty", {}, "", 0, 0, FALSE)
    /\ nops' = nops + 1
    /\ UNCHANGED <<demoted, dbnow, dbticks, budget, master_products>>
    /\ UNCHANGED JobVars
    /\ UNCHANGED <<rlvars, ftvars, jbvars, scvars>>

\* One iteration of the for loop of update_products_batch: scrape_product,
\* insert_product, update_scrape_status; an exception of the iteration is
\* caught and the product marked failed.
RunBatchItem(outcome) ==
    /\ batch_pc = "running"
    /\ batch_idx <= Len(products_to_scrape)
    /\ LET id == products_to_scrape[batch_idx]
           marks == ItemMarks(outcome)
       IN  /\ master_products[id] # NoRow => master_products[id].error_count < MaxErrors
           /\ master_products' = ApplyMarks(master_products, id, marks, dbnow)
           /\ successful_updates' = successful_updates + ItemSuccess(outcome)
           /\ run_log' = Append(run_log, [id |-> id, outcome |-> outcome, marks |-> marks,
                                        sleeps |-> ItemSleeps(outcome)])
           /\ last' = Op("batch_fetch", {id}, "", 0, 0, FALSE)
    /\ batch_idx' = batch_idx + 1
    /\ UNCHANGED <<demoted, dbnow, dbticks, budget, nops, batch_pc, batch_args,
                   products_to_scrape, inactive_at_pull>>
    /\ UNCHANGED <<rlvars, ftvars, jbvars, scvars>>

\* The for loop is over: return successful_updates.
RunBatchReturn ==
    /\ batch_pc = "running"
    /\ batch_idx > Len(products_to_scrape)
    /\ batch_pc' = "idle"
    /\ last' = Op("batch_return", {}, "", 0, successful_updates, FALSE)
    /\ batch_args' = NoArgs
    /\ products_to_scrape' = <<>>
    /\ batch_idx' = 0
    /\ successful_updates' = 0
    /\ inactive_at_pull' = {}
    /\ run_log' = <<>>
    /\ UNCHANGED <<demoted, dbnow, dbticks, budget, nops, master_products>>
    /\ UNCHANGED <<rlvars, ftvars, jbvars, scvars>>

\* update_single_product(product_id) for a known product: the page is fetched;
\* an exception leaves the row alone (the outer except returns False).
UpdateSingleProduct(id, outcome) ==
    /\ nops < budget
    /\ master_products[id] # NoRow
    /\ master_products[id].error_count < MaxErrors
    /\ master_products' =
          IF outcome = "raise" THEN master_products
          ELSE UpdateScrapeStatus(master_products, id,
                                  IF Scraped(outcome) THEN "scraped" ELSE "failed", dbnow)
    /\ last' = Op("single_fetch", {id}, "", 0, Bool(Scraped(outcome)), FALSE)
    /\ nops' = nops + 1
    /\ UNCHANGED <<demoted, dbnow, dbticks, budget>>
    /\ UNCHANGED JobVars
    /\ UNCHANGED <<rlvars, ftvars, jbvars, scvars>>

\* update_single_product(product_id) for an unknown product: nothing is fetched.
UpdateSingleMissing(id) ==
    /\ nops < budget
    /\ master_products[id] = NoRow
    /\ last' = Op("single_missing", {id}, "", 0, 0, FALSE)
    /\ nops' = nops + 1
    /\ UNCHANGED <<demoted, dbnow, dbticks, budget, master_products>>
    /\ UNCHANGED JobVars
    /\ UNCHANGED <<rlvars, ftvars, jbvars, scvars>>

\* mark_inactive_products(days_threshold)
MarkInactiveProducts(days) ==
    /\ nops < budget
    /\ LET mp == MarkInactive(master_products, days, dbnow)
       IN  /\ master_products' = mp
           /\ last' = Op("mark_inactive", Changed(master_products, mp), "", days,
                         MarkInactiveCount(mp, dbnow), FALSE)
    /\ nops' = nops + 1
    /\ UNCHANGED <<demoted, dbnow, dbticks, budget>>
    /\ UNCHANGED JobVars
    /\ UNCHANGED <<rlvars, ftvars, jbvars, scvars>>

\* cleanup_failed_products(error_threshold)
CleanupFailedProducts(error_threshold) ==
    /\ nops < budget
    /\ LET mp == CleanupFailed(master_products, error_threshold)
       IN  /\ master_products' = mp
           /\ demoted' = demoted \cup Changed(master_products, mp)
           /\ last' = Op("cleanup_failed", Changed(master_products, mp), "", error_threshold,
                         CleanupFailedCount(mp, error_threshold), FALSE)
    /\ nops' = nops + 1
    /\ UNCHANGED <<dbnow, dbticks, budget>>
    /\ UNCHANGED JobVars
    /\ UNCHANGED <<rlvars, ftvars, jbvars, scvars>>

\* calculate_priorities(): the three UPDATEs in order, then the count query.
CalculatePriorities(hot) ==
    /\ nops < budget
    /\ LET mp == CalculatePrioritiesUpdates(master_products, hot, dbnow)
       IN  /\ master_products' = mp
           /\ last' = Op("calculate_priorities", Changed(master_products, mp), "", 0,
                         RecentlyScrapedCount(mp, Present(mp), dbnow), FALSE)
    /\ nops' = nops + 1
    /\ UNCHANGED <<demoted, dbnow, dbticks, budget>>
    /\ UNCHANGED JobVars
    /\ UNCHANGED <<rlvars, ftvars, jbvars, scvars>>

\* boost_category_priority(category_id, boost_amount)
BoostCategoryPriority(cat, boost_amount) ==
    /\ nops < budget
    /\ LET mp == BoostCategory(master_products, cat, boost_amount)
       IN  /\ \A id \in Present(mp) : mp[id].scrape_priority >= 0 - PriorityDepth
           /\ master_products' = mp
           /\ last' = Op("boost_category", Changed(master_products, mp), cat, boost_amount,
                         RecentlyScrapedCount(mp,
                            {id \in Present(mp) : mp[id].category_id = cat}, dbnow), FALSE)
    /\ nops' = nops + 1
    /\ UNCHANGED <<demoted, dbnow, dbticks, budget>>
    /\ UNCHANGED JobVars
    /\ UNCHANGED <<rlvars, ftvars, jbvars, scvars>>

\* The database clock advances.
DbTick(d) ==
    /\ dbticks < MaxDbTicks
    /\ dbnow' = dbnow + d
    /\ dbticks' = dbticks + 1
    /\ UNCHANGED <<demoted, budget, master_products, nops, last>>
    /\ UNCHANGED JobVars
    /\ UNCHANGED <<rlvars, ftvars, jbvars, scvars>>

(***************************************************************************)
(* ProxyManager and AliExpressScraper._make_request (src/aliai/scraper.py)  *)
(***************************************************************************)
ProxyNames == {"p1", "p2", "p3"}
ProxyLists == {<<>>, <<"p1", "p2">>, <<"p1", "p2", "p3">>}
NullProxy == "None"
NoCall == "no call"
Retries == {0, 3}
MaxGets == 4           \* get_proxy() calls made from outside _make_request
MaxFetches == 4        \* _make_request calls in one behaviour
Scraper == "a"         \* the scraper, as caller of its RateLimiter

\* What one `async with self.session.get(...)` attempt can do: answer with a
\* status, or raise (aiohttp.ClientError with a message, asyncio.TimeoutError
\* whose str() is empty).
AttemptOutcomes ==
    {[resp |-> TRUE, status |-> 200, kind |-> "", msg |-> ""],
     [resp |-> TRUE, status |-> 404, kind |-> "", msg |-> ""],
     [resp |-> FALSE, status |-> 0, kind |-> "ClientError", msg |-> "refused"],
     [resp |-> FALSE, status |-> 0, kind |-> "TimeoutError", msg |-> ""]}

\* `except Exception`: both kinds are subclasses of Exception.
Caught_clienterror(kind) == kind = "ClientError"
Caught(kind) == kind \in {"ClientError", "TimeoutError"}

\* 2 ** attempt
RECURSIVE Pow2(_)
Pow2(n) == IF n = 0 THEN 1 ELSE 2 * Pow2(n - 1)
Backoff_linear(k) == k + 1
Backoff(k) == Pow2(k)

\* [p for p in self.proxy_list if p not in self.failed_proxies]
Available_all(list, failed) == list
Available(list, failed) == SelectSeq(list, LAMBDA p : p \notin failed)

\* get_proxy(): the possible outcomes [proxy, failed, index] (one with
\* rotation, any available proxy with random.choice).
GetProxy_noreset(list, failed, idx, rot) ==
    LET av == Available(list, failed)
    IN  IF av = <<>>
        THEN {[proxy |-> NullProxy, failed |-> failed, index |-> idx]}
        ELSE IF rot
             THEN {[proxy |-> av[(idx % Len(av)) + 1], failed |-> failed, index |-> idx + 1]}
             ELSE {[proxy |-> av[i], failed |-> failed, index |-> idx] : i \in DOMAIN av}
GetProxy(list, failed, idx, rot) ==
    IF list = <<>>
    THEN {[proxy |-> NullProxy, failed |-> failed, index |-> idx]}
    ELSE LET av0 == Available(list, failed)
             av == IF av0 = <<>> THEN list ELSE av0
             f == IF av0 = <<>> THEN {} ELSE failed
         IN  IF rot
             THEN {[proxy |-> av[(idx % Len(av)) + 1], failed |-> f, index |-> idx + 1]}
             ELSE {[proxy |-> av[i], failed |-> f, index |-> idx] : i \in DOMAIN av}

NoResult == [none |-> TRUE]
\* ScrapingResult(status_code, error); error is <<>> for None, <<text>> for a str.
ScrapingResult(status_code, error) ==
    [status_code |-> status_code, error |-> error, raised |-> FALSE]
\* _make_request ended by an exception that reached its caller.
Raised(msg) == [status_code |-> 0, error |-> <<msg>>, raised |-> TRUE]

\* Configuration of the proxies, and no request made yet.
FTInit ==
    /\ proxy_list \in ProxyLists
    /\ rotation \in BOOLEAN
    /\ proxy_enabled \in BOOLEAN
    /\ failed_proxies = {}
    /\ current_index = 0
    /\ got = NoCall
    /\ failed_before = {}
    /\ ngets = 0
    /\ fetch_pc = "idle"
    /\ fetch_retries = 0
    /\ attempt = 0
    /\ fetch_proxy = NullProxy
    /\ slept = <<>>
    /\ attempt_log = <<>>
    /\ acq_base = 0
    /\ fetch_result = NoResult
    /\ nfetch = 0

\* The scraper of a behaviour that makes no request: default configuration.
FTQuiet == FTInit /\ proxy_list = <<>> /\ rotation /\ ~proxy_enabled

FetchVars == <<fetch_pc, fetch_retries, attempt, fetch_proxy, slept, attempt_log,
               acq_base, fetch_result, nfetch>>

\* proxy_manager.get_proxy()
ProxyGet ==
    /\ ngets < MaxGets
    /\ \E r \in GetProxy(proxy_list, failed_proxies, current_index, rotation) :
          /\ got' = r.proxy
          /\ failed_proxies' = r.failed
          /\ current_index' = r.index
    /\ failed_before' = failed_proxies
    /\ ngets' = ngets + 1
    /\ UNCHANGED <<proxy_list, rotation, proxy_enabled>>
    /\ UNCHANGED FetchVars
    /\ UNCHANGED <<rlvars, wqvars, jbvars, scvars>>

\* proxy_manager.mark_proxy_failed(proxy)
MarkProxyFailed(proxy) ==
    /\ proxy \notin failed_proxies
    /\ failed_proxies' = failed_proxies \cup {proxy}
    /\ UNCHANGED <<proxy_list, rotation, proxy_enabled, current_index, got,
                   failed_before, ngets>>
    /\ UNCHANGED FetchVars
    /\ UNCHANGED <<rlvars, wqvars, jbvars, scvars>>

\* _make_request(url, retries) is called: its next step is
\* `await self.rate_limiter.acquire()`.
FetchStart(retries) ==
    /\ fetch_pc = "idle"
    /\ nfetch < MaxFetches
    /\ pc[Scraper] = "idle"
    /\ fetch_pc' = "acquire"
    /\ fetch_retries' = retries
    /\ attempt' = 0
    /\ slept' = <<>>
    /\ attempt_log' = <<>>
    /\ acq_base' = Len(admitted[Scraper])
    /\ fetch_result' = NoResult
    /\ nfetch' = nfetch + 1
    /\ UNCHANGED <<proxy_list, rotation, proxy_enabled, failed_proxies, current_index,
                   got, failed_before, ngets, fetch_proxy>>
    /\ UNCHANGED <<rlvars, wqvars, jbvars, scvars>>

\* The acquire() of this _make_request has not been called yet.
FetchMustAcquire == fetch_pc = "acquire" /\ Len(admitted[Scraper]) = acq_base

\* acquire() has returned: the proxy of the request is chosen, once, before
\* the retry loop.
FetchAcquired ==
    /\ fetch_pc = "acquire"
    /\ pc[Scraper] = "idle"
    /\ Len(admitted[Scraper]) = acq_base + 1
    /\ IF proxy_enabled
       THEN /\ \E r \in GetProxy(proxy_list, failed_proxies, current_index, rotation) :
                  /\ fetch_proxy' = r.proxy
                  /\ got' = r.proxy
                  /\ failed_proxies' = r.failed
                  /\ current_index' = r.index
            /\ failed_before' = failed_proxies
       ELSE /\ fetch_proxy' = NullProxy
            /\ UNCHANGED <<got, failed_proxies, current_index, failed_before>>
    /\ fetch_pc' = "attempt"
    /\ UNCHANGED <<proxy_list, rotation, proxy_enabled, ngets, fetch_retries, attempt,
                   slept, attempt_log, acq_base, fetch_result, nfetch>>
    /\ UNCHANGED <<rlvars, wqvars, jbvars, scvars>>

\* One iteration of `for attempt in range(retries + 1)`: the response is
\* returned whatever its status; an exception marks the proxy failed and is
\* followed by asyncio.sleep(2 ** attempt) and the next iteration, or, in the
\* last iteration, by the return of a result with status_code 0.
FetchAttempt(o) ==
    /\ fetch_pc = "attempt"
    /\ attempt_log' = Append(attempt_log, IF o.resp THEN "response" ELSE "exception")
    /\ IF o.resp
       THEN /\ fetch_result' = ScrapingResult(o.status, <<>>)
            /\ fetch_pc' = "idle"
            /\ UNCHANGED <<failed_proxies, attempt, slept>>
       ELSE IF ~Caught(o.kind)
       THEN /\ fetch_result' = Raised(o.msg)
            /\ fetch_pc' = "idle"
            /\ UNCHANGED <<failed_proxies, attempt, slept>>
       ELSE /\ failed_proxies' = IF fetch_proxy # NullProxy
                                 THEN failed_proxies \cup {fetch_proxy}
                                 ELSE failed_proxies
            /\ IF attempt < fetch_retries
               THEN /\ slept' = Append(slept, Backoff(attempt))
                    /\ attempt' = attempt + 1
                    /\ UNCHANGED <<fetch_pc, fetch_result>>
               ELSE /\ fetch_result' = ScrapingResult(0, <<o.msg>>)
                    /\ fetch_pc' = "idle"
                    /\ UNCHANGED <<attempt, slept>>
    /\ UNCHANGED <<proxy_list, rotation, proxy_enabled, current_index, got, failed_before,
                   ngets, fetch_retries, fetch_proxy, acq_base, nfetch>>
    /\ UNCHANGED <<rlvars, wqvars, jbvars, scvars>>

(***************************************************************************)
(* Job entry points under store failures (src/aliai/jobs/*.py)             *)
(***************************************************************************)
\* The store call of a job that raises, if any: ClickHouseClient() (the
\* connection), one of the statements it executes, or db.close().
NoFail == "none"
MaintFails == {NoFail, "connect", "update", "count", "close"}
RecalcFails == {NoFail, "connect", "update1", "update2", "update3", "count", "close"}
BatchFails == {NoFail, "connect", "query", "status", "close"}
DiscoverFails == {NoFail, "connect"}

\* A sample of ALIEXPRESS_CATEGORIES (categories.py), in the order of the list.
ALIEXPRESS_CATEGORIES ==
    << [category_name |-> "Electronics", parent_id |-> ""],
       [category_name |-> "Mobile & Accessories", parent_id |-> "100003070"],
       [category_name |-> "Apparel & Accessories", parent_id |-> ""],
       [category_name |-> "Women's Clothing", parent_id |-> "100003109"],
       [category_name |-> "Home & Garden", parent_id |-> ""] >>

\* [cat for cat in ALIEXPRESS_CATEGORIES if not cat.parent_id]
TopLevelCategories_all(cats) == cats
TopLevelCategories(cats) == SelectSeq(cats, LAMBDA cat : cat.parent_id = "")

\* `try: ... return value / except Exception: return 0` of a job function:
\* exc tells whether a statement of the try block raised.
JobBoundary_propagates(exc, value) ==
    IF exc THEN [ret |-> 0, raised |-> TRUE] ELSE [ret |-> value, raised |-> FALSE]
JobBoundary(exc, value) ==
    IF exc THEN [ret |-> 0, raised |-> FALSE] ELSE [ret |-> value, raised |-> FALSE]

JobOut(job, fail, out) ==
    [job |-> job, fail |-> fail, ret |-> out.ret, raised |-> out.raised]

NoResults == [name \in {} |-> 0]

JBInit ==
    /\ job_out = [job |-> "none", fail |-> NoFail, ret |-> 0, raised |-> FALSE]
    /\ disc_pc = "idle"
    /\ disc_idx = 0
    /\ disc_results = NoResults
    /\ disc_visits = <<>>

DiscVars == <<disc_pc, disc_idx, disc_results, disc_visits>>

\* What a job call leaves alone in the work queue's variables.
JobFrame == <<dbnow, dbticks, demoted, budget, last>>

\* refresh_master_table.mark_inactive_products(days_threshold): the store
\* method catches what its two statements raise and returns 0; the job
\* catches what ClickHouseClient() and db.close() raise and returns 0.
JobMarkInactive(days, fail) ==
    /\ nops < budget
    /\ disc_pc = "idle"
    /\ LET mp == IF fail \in {"connect", "update"} THEN master_products
                 ELSE MarkInactive(master_products, days, dbnow)
           count == IF fail \in {"update", "count"} THEN 0 ELSE MarkInactiveCount(mp, dbnow)
       IN  /\ master_products' = mp
           /\ job_out' = JobOut("mark_inactive_products", fail,
                                JobBoundary(fail \in {"connect", "close"}, count))
    /\ nops' = nops + 1
    /\ UNCHANGED JobFrame
    /\ UNCHANGED JobVars
    /\ UNCHANGED DiscVars
    /\ UNCHANGED <<rlvars, ftvars, scvars>>

\* refresh_master_table.cleanup_failed_products(error_threshold)
JobCleanupFailed(error_threshold, fail) ==
    /\ nops < budget
    /\ disc_pc = "idle"
    /\ LET mp == IF fail \in {"connect", "update"} THEN master_products
                 ELSE CleanupFailed(master_products, error_threshold)
           count == IF fail \in {"update", "count"} THEN 0
                    ELSE CleanupFailedCount(mp, error_threshold)
       IN  /\ master_products' = mp
           /\ job_out' = JobOut("cleanup_failed_products", fail,
                                JobBoundary(fail \in {"connect", "close"}, count))
    /\ nops' = nops + 1
    /\ UNCHANGED JobFrame
    /\ UNCHANGED JobVars
    /\ UNCHANGED DiscVars
    /\ UNCHANGED <<rlvars, ftvars, scvars>>

\* calculate_priorities(): every statement is inside the try block of the
\* job; the UPDATEs executed before the one that raises stay applied.
JobCalculatePriorities(hot, fail) ==
    /\ nops < budget
    /\ disc_pc = "idle"
    /\ LET mp0 == master_products
           mp1 == IF fail \in {"connect", "update1"} THEN mp0 ELSE CategoryBoostRule(mp0, hot)
           mp2 == IF fail \in {"connect", "update1", "update2"} THEN mp1
                  ELSE ErrorPenaltyRule(mp1)
           mp3 == IF fail \in {"connect", "update1", "update2", "update3"} THEN mp2
                  ELSE NewProductRule(mp2, dbnow)
       IN  /\ master_products' = mp3
           /\ job_out' = JobOut("calculate_priorities", fail,
                                JobBoundary(fail # NoFail,
                                            RecentlyScrapedCount(mp3, Present(mp3), dbnow)))
    /\ nops' = nops + 1
    /\ UNCHANGED JobFrame
    /\ UNCHANGED JobVars
    /\ UNCHANGED DiscVars
    /\ UNCHANGED <<rlvars, ftvars, scvars>>

\* The for loop of update_products_batch over the list q, item i onwards,
\* outs[i] being what the fetch of item i does; store_up tells whether the
\* update_scrape_status statements get through (the method catches what they
\* raise). Gives the table and the value of successful_updates.
RECURSIVE BatchRun(_, _, _, _, _, _)
BatchRun(mp, q, outs, i, store_up, t) ==
    IF i > Len(q) THEN [mp |-> mp, n |-> 0]
    ELSE LET mp1 == IF store_up THEN ApplyMarks(mp, q[i], ItemMarks(outs[i]), t) ELSE mp
             rest == BatchRun(mp1, q, outs, i + 1, store_up, t)
         IN  [mp |-> rest.mp, n |-> rest.n + ItemSuccess(outs[i])]

\* update_products_batch(batch_size, priority_min, status_filter) as one call:
\* get_products_to_scrape catches what its query raises and returns [], which
\* ends the job with 0; what ClickHouseClient() and db.close() raise is
\* caught by the job.
UpdateProductsBatch(job, batch_size, priority_min, status_filter, fail) ==
    /\ nops < budget
    /\ disc_pc = "idle"
    /\ batch_pc = "idle"
    /\ \E q \in GetProductsToScrape(master_products, batch_size, priority_min, status_filter) :
       \E outs \in [DOMAIN q -> ScrapeOutcomes] :
          LET pulled == IF fail \in {"connect", "query"} THEN <<>> ELSE q
              run == BatchRun(master_products, pulled, outs, 1, fail # "status", dbnow)
          IN  /\ master_products' = run.mp
              /\ job_out' = JobOut(job, fail, JobBoundary(fail \in {"connect", "close"}, run.n))
    /\ nops' = nops + 1
    /\ UNCHANGED JobFrame
    /\ UNCHANGED JobVars
    /\ UNCHANGED DiscVars
    /\ UNCHANGED <<rlvars, ftvars, scvars>>

JobUpdateProductsBatch(batch_size, priority_min, status_filter, fail) ==
    UpdateProductsBatch("update_products_batch", batch_size, priority_min, status_filter, fail)

\* update_high_priority_products(limit)
JobUpdateHighPriority(limit, fail) ==
    UpdateProductsBatch("update_high_priority_products", limit, HighPriorityMin, "pending", fail)

\* Everything one call update_products_batch(batch_size, priority_min,
\* status_filter) can do to the table mp at time t: the list it fetches, in
\* order, the table it leaves and what it returns.
BatchCalls(mp, batch_size, priority_min, status_filter, fail, t) ==
    UNION { { LET pulled == IF fail \in {"connect", "query"} THEN <<>> ELSE q
                  run == BatchRun(mp, pulled, outs, 1, fail # "status", t)
              IN  [fetched |-> pulled, mp |-> run.mp,
                   out |-> JobBoundary(fail \in {"connect", "close"}, run.n)] :
              outs \in [DOMAIN q -> ScrapeOutcomes] } :
            q \in GetProductsToScrape(mp, batch_size, priority_min, status_filter) }

\* Everything one call update_high_priority_products(limit) can do.
HighPriorityCalls_anypriority(mp, limit, fail, t) ==
    BatchCalls(mp, limit, MinPriority, "pending", fail, t)
HighPriorityCalls(mp, limit, fail, t) ==
    BatchCalls(mp, limit, HighPriorityMin, "pending", fail, t)

\* AliExpressScraper has no method scrape_category_for_ids: the call in
\* discover_category_ids raises AttributeError inside the try block.
HasScrapeCategoryForIds == FALSE

\* discover_category_ids(category_url, max_pages) finding the products `found`:
\* what it returns, or raises.
DiscoverCategoryIds(found, fail) ==
    IF fail = "connect" THEN JobBoundary(TRUE, 0)
    ELSE IF ~HasScrapeCategoryForIds THEN JobBoundary(TRUE, 0)
    ELSE JobBoundary(FALSE, Cardinality(found))

\* discover_category_ids as a job of its own.
JobDiscover(found, fail) ==
    /\ nops < budget
    /\ disc_pc = "idle"
    /\ job_out' = [found |-> found]
                   @@ JobOut("discover_category_ids", fail, DiscoverCategoryIds(found, fail))
    /\ nops' = nops + 1
    /\ UNCHANGED <<master_products>>
    /\ UNCHANGED JobFrame
    /\ UNCHANGED JobVars
    /\ UNCHANGED DiscVars
    /\ UNCHANGED <<rlvars, ftvars, scvars>>

\* discover_all_category_ids is called: results = {}, the loop begins.
DiscoverAllStart ==
    /\ nops < budget
    /\ disc_pc = "idle"
    /\ disc_pc' = "running"
    /\ disc_idx' = 1
    /\ disc_results' = NoResults
    /\ disc_visits' = <<>>
    /\ nops' = nops + 1
    /\ UNCHANGED <<master_products, job_out>>
    /\ UNCHANGED JobFrame
    /\ UNCHANGED JobVars
    /\ UNCHANGED <<rlvars, ftvars, scvars>>

\* One iteration of its for loop: results[category_name] is what
\* discover_category_ids returned, or 0 when the iteration raised.
DiscoverAllCategory(found, fail) ==
    /\ disc_pc = "running"
    /\ disc_idx <= Len(TopLevelCategories(ALIEXPRESS_CATEGORIES))
    /\ LET category == TopLevelCategories(ALIEXPRESS_CATEGORIES)[disc_idx]
           r == DiscoverCategoryIds(found, fail)
           count == IF r.raised THEN 0 ELSE r.ret
       IN  /\ disc_results' = (category.category_name :> count) @@ disc_results
           /\ disc_visits' = Append(disc_visits,
                                    [category_name |-> category.category_name, fail |-> fail])
    /\ disc_idx' = disc_idx + 1
    /\ UNCHANGED <<master_products, job_out, disc_pc, nops>>
    /\ UNCHANGED JobFrame
    /\ UNCHANGED JobVars
    /\ UNCHANGED <<rlvars, ftvars, scvars>>

\* The loop is over: return results.
DiscoverAllReturn ==
    /\ disc_pc = "running"
    /\ disc_idx > Len(TopLevelCategories(ALIEXPRESS_CATEGORIES))
    /\ disc_pc' = "idle"
    /\ job_out' = [job |-> "discover_all_category_ids",
                   fail |-> IF \E i \in DOMAIN disc_visits : disc_visits[i].fail # NoFail
                            THEN "connect" ELSE NoFail,
                   ret |-> disc_results, raised |-> FALSE]
    /\ UNCHANGED <<master_products, nops, disc_idx, disc_results, disc_visits>>
    /\ UNCHANGED JobFrame
    /\ UNCHANGED JobVars
    /\ UNCHANGED <<rlvars, ftvars, scvars>>

(***************************************************************************)
(* Scheduled pipelines (src/airflow/dags/master_product_pipeline.py)        *)
(***************************************************************************)
\* The DAGs that have a schedule, and their tasks.
ScheduledDags ==
    {"master_product_discovery", "master_product_updates", "master_product_refresh"}

DagTasks(dag) ==
    CASE dag = "master_product_discovery" ->
            {"discover_all_categories", "calculate_priorities"}
      [] dag = "master_product_updates" ->
            {"update_high_priority_batch", "update_regular_batch", "mark_inactive_products"}
      [] dag = "master_product_refresh" -> {"cleanup_failed_products"}

\* The `a >> b` lines: the tasks that task is declared downstream of.
Upstream_none(task) == {}
Upstream(task) ==
    CASE task = "calculate_priorities" -> {"discover_all_categories"}
      [] task = "update_regular_batch" -> {"update_high_priority_batch"}
      [] task = "mark_inactive_products" -> {"update_regular_batch"}
      [] OTHER -> {}

\* max_active_runs of the DAG.
MaxActiveRuns(dag) == 1

\* The arguments the python callables pass to the jobs.
DagHighLimit == 50
DagBatchSize == 200
InactiveDays == 30

\* The run_update_batch callable: update_products_batch(batch_size=200,
\* priority_min=1, status_filter='pending').
RunUpdateBatch_failed(mp, t) == BatchCalls(mp, DagBatchSize, MinPriority, "failed", NoFail, t)
RunUpdateBatch(mp, t) == BatchCalls(mp, DagBatchSize, MinPriority, "pending", NoFail, t)

\* What the python callable of a task can do to the table, the store being
\* up: the table it leaves and the products it fetches, in order.
TaskCalls(task, mp, t) ==
    CASE task = "discover_all_categories" ->
            \* every discover_category_ids call returns 0 without a store call
            {[mp |-> mp, fetched |-> <<>>]}
      [] task = "calculate_priorities" ->
            {[mp |-> CalculatePrioritiesUpdates(mp, hot, t), fetched |-> <<>>] : hot \in HotSets}
      [] task = "update_high_priority_batch" ->
            {[mp |-> r.mp, fetched |-> r.fetched] :
                r \in HighPriorityCalls(mp, DagHighLimit, NoFail, t)}
      [] task = "update_regular_batch" ->
            {[mp |-> r.mp, fetched |-> r.fetched] : r \in RunUpdateBatch(mp, t)}
      [] task = "mark_inactive_products" ->
            {[mp |-> MarkInactive(mp, InactiveDays, t), fetched |-> <<>>]}
      [] task = "cleanup_failed_products" ->
            {[mp |-> CleanupFailed(mp, ErrorThreshold), fetched |-> <<>>]}

NewRun(dag) == [tasks |-> [task \in DagTasks(dag) |-> "none"], fetched |-> <<>>]

SCInit ==
    /\ dag_runs = [dag \in ScheduledDags |-> <<>>]
    /\ first_seen = [id \in Ids |-> NoTime]

SCQuiet == SCInit

\* What a step of the scheduler leaves alone.
SchedFrame == <<dbnow, dbticks, batch_pc, batch_args, products_to_scrape, batch_idx,
                successful_updates, inactive_at_pull, run_log, demoted, nops, budget, last>>

\* The scheduler creates a run of the DAG: its schedule is due and fewer
\* than max_active_runs runs of it are active.
DagTrigger(dag) ==
    /\ Len(dag_runs[dag]) < MaxActiveRuns(dag)
    /\ dag_runs' = [dag_runs EXCEPT ![dag] = Append(@, NewRun(dag))]
    /\ UNCHANGED <<master_products, first_seen>>
    /\ UNCHANGED SchedFrame
    /\ UNCHANGED <<rlvars, ftvars, jbvars>>

\* A task of an active run starts: all its upstream tasks have succeeded.
TaskStart(dag, r, task) ==
    /\ r \in DOMAIN dag_runs[dag]
    /\ task \in DagTasks(dag)
    /\ dag_runs[dag][r].tasks[task] = "none"
    /\ \A up \in Upstream(task) : dag_runs[dag][r].tasks[up] = "success"
    /\ dag_runs' = [dag_runs EXCEPT ![dag][r].tasks[task] = "running"]
    /\ UNCHANGED <<master_products, first_seen>>
    /\ UNCHANGED SchedFrame
    /\ UNCHANGED <<rlvars, ftvars, jbvars>>

\* The python callable of a running task runs its job to the end and
\* returns: the task succeeds (no job raises).
TaskRun(dag, r, task) ==
    /\ r \in DOMAIN dag_runs[dag]
    /\ task \in DagTasks(dag)
    /\ dag_runs[dag][r].tasks[task] = "running"
    /\ \E c \in TaskCalls(task, master_products, dbnow) :
          /\ \A i \in DOMAIN c.fetched : master_products[c.fetched[i]].error_count < MaxErrors
          /\ master_products' = c.mp
          /\ dag_runs' = [dag_runs EXCEPT ![dag][r].tasks[task] = "success",
                                          ![dag][r].fetched = @ \o c.fetched]
    /\ UNCHANGED first_seen
    /\ UNCHANGED SchedFrame
    /\ UNCHANGED <<rlvars, ftvars, jbvars>>

\* Every task of the run has succeeded: the run is over.
DagRunDone(dag, r) ==
    /\ r \in DOMAIN dag_runs[dag]
    /\ \A task \in DagTasks(dag) : dag_runs[dag][r].tasks[task] = "success"
    /\ dag_runs' = [dag_runs EXCEPT ![dag] =
                       SubSeq(@, 1, r - 1) \o SubSeq(@, r + 1, Len(@))]
    /\ UNCHANGED <<master_products, first_seen>>
    /\ UNCHANGED SchedFrame
    /\ UNCHANGED <<rlvars, ftvars, jbvars>>

\* batch_insert_master_products(products_list) as called by a discovery; the
\* time of the first discovery of each product is kept for the record.
DiscoverBatch(ids, cat) ==
    /\ nops < budget
    /\ LET r == BatchInsert(master_products, ids, cat, dbnow, 0)
       IN  /\ master_products' = r.mp
           /\ last' = Op("upsert", ids, cat, 0, r.n,
                         last.op = "upsert" /\ last.ids = ids /\ last.s = cat)
    /\ first_seen' = [id \in Ids |-> IF id \in ids /\ first_seen[id] = NoTime
                                     THEN dbnow ELSE first_seen[id]]
    /\ nops' = nops + 1
    /\ UNCHANGED <<demoted, dbnow, dbticks, budget, dag_runs>>
    /\ UNCHANGED JobVars
    /\ UNCHANGED <<rlvars, ftvars, jbvars>>

(***************************************************************************)
(* Specifications                                                          *)
(***************************************************************************)
RLNext ==
    \/ \E c \in Callers : Call(c)
    \/ \E c \in Callers : AcquireMinuteFull(c)
    \/ \E c \in Callers : AcquireHourFull(c)
    \/ \E c \in Callers : AcquireAdmit(c)
    \/ \E c \in Callers : AcquireWake(c)
    \/ \E d \in TickSteps : Tick(d)

RLSpecInit == RLInit /\ WQInit /\ budget = 0 /\ FTQuiet /\ JBInit /\ SCQuiet
RLSpec == RLSpecInit /\ [][RLNext]_vars

\* The event loop runs every coroutine that is ready, and time advances.
RLFairSpec ==
    /\ RLSpecInit /\ [][RLNext]_vars
    /\ WF_vars(\E d \in TickSteps : Tick(d))
    /\ \A c \in Callers :
        /\ WF_vars(Call(c))
        /\ WF_vars(AcquireMinuteFull(c))
        /\ WF_vars(AcquireHourFull(c))
        /\ WF_vars(AcquireAdmit(c))
        /\ WF_vars(AcquireWake(c))

\* Products the operations of WQSpec are called with.
WQIds == {1, 2}
WQNext ==
    \/ \E ids \in (SUBSET WQIds) \ {{}}, cat \in Categories : UpsertBatch(ids, cat)
    \/ \E id \in WQIds, status \in Statuses : MarkStatus(id, status)
    \/ \E p \in PriorityFloors, st \in Statuses : RunBatchPull(BatchLimit, p, st)
    \/ \E p \in PriorityFloors, st \in Statuses : RunBatchEmpty(BatchLimit, p, st)
    \/ \E outcome \in ScrapeOutcomes : RunBatchItem(outcome)
    \/ RunBatchReturn
    \/ \E id \in WQIds, outcome \in ScrapeOutcomes : UpdateSingleProduct(id, outcome)
    \/ \E id \in WQIds : UpdateSingleMissing(id)
    \/ \E days \in DayThresholds : MarkInactiveProducts(days)
    \/ \E th \in ErrorThresholds : CleanupFailedProducts(th)
    \/ \E hot \in HotSets : CalculatePriorities(hot)
    \/ \E cat \in Categories, amount \in BoostAmounts : BoostCategoryPriority(cat, amount)
    \/ \E d \in DbTickSteps : DbTick(d)

\* The work queue under every operation, from the empty table.
RLQuiet == RLInit /\ clients = Callers
WQSpecInit == WQInit /\ budget = MaxOps /\ RLQuiet /\ FTQuiet /\ JBInit /\ SCQuiet
WQSpec == WQSpecInit /\ [][WQNext]_vars

\* update_products_batch over the products discovered in one category, every
\* fetch ending in any of its outcomes.
BatchNext ==
    \/ \E ids \in (SUBSET Ids) \ {{}} : UpsertBatch(ids, "catA")
    \/ \E l \in Limits, st \in {"pending", "failed"} : RunBatchPull(l, MinPriority, st)
    \/ \E l \in Limits, st \in {"pending", "failed"} : RunBatchEmpty(l, MinPriority, st)
    \/ \E outcome \in ScrapeOutcomes : RunBatchItem(outcome)
    \/ RunBatchReturn

BatchSpecInit == WQInit /\ budget = BatchOps /\ RLQuiet /\ FTQuiet /\ JBInit /\ SCQuiet
BatchSpec == BatchSpecInit /\ [][BatchNext]_vars

\* The life of single work items through failures, demotion and further
\* updates (no clock, no priority change).
LifeIds == {1, 2}
\* status_filter values get_products_to_scrape documents.
DocumentedFilters == {"pending", "scraped", "failed"}
LifeNext ==
    \/ \E id \in LifeIds : master_products[id] = NoRow /\ UpsertBatch({id}, "catA")
    \/ \E id \in LifeIds : MarkStatus(id, "failed")
    \/ CleanupFailedProducts(ErrorThreshold)
    \/ \E st \in DocumentedFilters : RunBatchPull(BatchLimit, MinPriority, st)
    \/ \E outcome \in ScrapeOutcomes : RunBatchItem(outcome)
    \/ RunBatchReturn

LifeSpecInit == WQInit /\ budget = LifeOps /\ RLQuiet /\ FTQuiet /\ JBInit /\ SCQuiet
LifeSpec == LifeSpecInit /\ [][LifeNext]_vars


\* Work queues the program can be in at database time SampleNow: each product
\* is unknown or was discovered at time t, then possibly boosted
\* (boost_category_priority of its category), aged out
\* (mark_inactive_products) and marked failed (update_scrape_status).
SampleNow == 48
SampleBoost == 3
EmptyTable == [id \in Ids |-> NoRow]

SampleRow(id, t, boosted, aged, failed) ==
    LET cat == IF boosted THEN "catB" ELSE "catA"
        s0 == InsertMasterProduct(EmptyTable, id, cat, t)
        s1 == IF boosted THEN BoostCategory(s0, cat, SampleBoost) ELSE s0
        s2 == IF aged THEN MarkInactive(s1, 1, SampleNow) ELSE s1
        s3 == IF failed THEN UpdateScrapeStatus(s2, id, "failed", SampleNow) ELSE s2
    IN  s3[id]

SampleRows(id) ==
    {NoRow} \cup {SampleRow(id, t, b, a, f) : t \in {0, 24}, b \in BOOLEAN,
                                              a \in BOOLEAN, f \in BOOLEAN}

SampleTables == {mp \in [Ids -> UNION {SampleRows(id) : id \in Ids}] :
                    \A id \in Ids : mp[id] \in SampleRows(id)}

QueryInit ==
    /\ dbnow = SampleNow
    /\ dbticks = MaxDbTicks
    /\ master_products \in SampleTables
    /\ batch_pc = "idle"
    /\ batch_args = NoArgs
    /\ products_to_scrape = <<>>
    /\ batch_idx = 0
    /\ successful_updates = 0
    /\ inactive_at_pull = {}
    /\ run_log = <<>>
    /\ demoted = {}
    /\ nops = 0
    /\ last = Op("init", {}, "", 0, 0, FALSE)

QueryNext ==
    \/ \E l \in Limits, p \in PriorityFloors, st \in Statuses : RunBatchPull(l, p, st)
    \/ \E l \in Limits, p \in PriorityFloors, st \in Statuses : RunBatchEmpty(l, p, st)
    \/ \E outcome \in ScrapeOutcomes : RunBatchItem(outcome)
    \/ RunBatchReturn
    \/ \E days \in DayThresholds : MarkInactiveProducts(days)

\* update_products_batch over the work queues of SampleTables, with the
\* maintenance job running beside it.
QuerySpecInit == QueryInit /\ budget = QueryOps /\ RLQuiet /\ FTQuiet /\ JBInit /\ SCQuiet
QuerySpec == QuerySpecInit /\ [][QueryNext]_vars

\* Work queues the maintenance jobs can find at database time SampleNow: each
\* product is unknown or was discovered at time t, possibly aged out at once
\* (mark_inactive_products(0)), marked failed a number of times and then
\* possibly given another status (update_scrape_status).
FailCounts == {0, 1, 5}
FinalMarks == {"none", "pending", "scraped", "skipped"}

MaintRow(id, t, aged, nfail, final) ==
    LET s0 == InsertMasterProduct(EmptyTable, id, "catA", t)
        s1 == IF aged THEN MarkInactive(s0, 0, t + 1) ELSE s0
        s2 == ApplyMarks(s1, id, [i \in 1..nfail |-> "failed"], SampleNow)
        s3 == IF final = "none" THEN s2 ELSE UpdateScrapeStatus(s2, id, final, SampleNow)
    IN  s3[id]

MaintRows(id) ==
    {NoRow} \cup {MaintRow(id, t, a, n, f) : t \in {0, 24}, a \in BOOLEAN,
                                             n \in FailCounts, f \in FinalMarks}

\* The table holding the rows r1 and r2 of the products of WQIds.
MaintTable(r1, r2) ==
    [id \in Ids |-> IF id = 1 THEN r1 ELSE IF id = 2 THEN r2 ELSE NoRow]

MaintInit ==
    /\ dbnow = SampleNow
    /\ dbticks = MaxDbTicks
    /\ \E r1 \in MaintRows(1), r2 \in MaintRows(2) : master_products = MaintTable(r1, r2)
    /\ batch_pc = "idle"
    /\ batch_args = NoArgs
    /\ products_to_scrape = <<>>
    /\ batch_idx = 0
    /\ successful_updates = 0
    /\ inactive_at_pull = {}
    /\ run_log = <<>>
    /\ demoted = {}
    /\ nops = 0
    /\ last = Op("init", {}, "", 0, 0, FALSE)

\* The maintenance jobs of refresh_master_table.py, in any order, with
\* products failing between them; the clock stands still.
MaintNext ==
    \/ \E days \in DayThresholds : MarkInactiveProducts(days)
    \/ \E th \in ErrorThresholds : CleanupFailedProducts(th)
    \/ \E id \in WQIds : MarkStatus(id, "failed")

MaintSpecInit == MaintInit /\ budget = MaintOps /\ RLQuiet /\ FTQuiet /\ JBInit /\ SCQuiet
MaintSpec == MaintSpecInit /\ [][MaintNext]_vars

\* Work queues the priority jobs can find at database time SampleNow: each
\* product is unknown or was discovered at time t in a category, possibly
\* boosted (boost_category_priority), marked failed a number of times and
\* then possibly set back to pending (update_scrape_status).
PrioBoosts == {0, 4, -5}
PrioFailCounts == {0, 3}

PrioRow(id, t, cat, boost, nfail, final) ==
    LET s0 == InsertMasterProduct(EmptyTable, id, cat, t)
        s1 == BoostCategory(s0, cat, boost)
        s2 == ApplyMarks(s1, id, [i \in 1..nfail |-> "failed"], SampleNow)
        s3 == IF final = "none" THEN s2 ELSE UpdateScrapeStatus(s2, id, final, SampleNow)
    IN  s3[id]

PrioRows(id) ==
    {NoRow} \cup {PrioRow(id, t, c, b, n, f) : t \in {0, 24, 48}, c \in Categories,
                                               b \in PrioBoosts, n \in PrioFailCounts,
                                               f \in {"none", "pending"}}

PrioInit ==
    /\ dbnow = SampleNow
    /\ dbticks = MaxDbTicks
    /\ \E r1 \in PrioRows(1), r2 \in PrioRows(2) : master_products = MaintTable(r1, r2)
    /\ batch_pc = "idle"
    /\ batch_args = NoArgs
    /\ products_to_scrape = <<>>
    /\ batch_idx = 0
    /\ successful_updates = 0
    /\ inactive_at_pull = {}
    /\ run_log = <<>>
    /\ demoted = {}
    /\ nops = 0
    /\ last = Op("init", {}, "", 0, 0, FALSE)

\* The jobs of prioritize_products.py, in any order.
PrioNext ==
    \/ \E hot \in HotSets : CalculatePriorities(hot)
    \/ \E cat \in Categories, amount \in BoostAmounts : BoostCategoryPriority(cat, amount)

PrioSpecInit == PrioInit /\ budget = PrioOps /\ RLQuiet /\ FTQuiet /\ JBInit /\ SCQuiet
PrioSpec == PrioSpecInit /\ [][PrioNext]_vars

\* Products a category scan can find.
FoundSets == {{}, {1, 2}}

\* The job entry points, each call with or without a store call that fails.
JobNext ==
    \/ \E days \in DayThresholds, fail \in MaintFails : JobMarkInactive(days, fail)
    \/ \E th \in ErrorThresholds, fail \in MaintFails : JobCleanupFailed(th, fail)
    \/ \E hot \in HotSets, fail \in RecalcFails : JobCalculatePriorities(hot, fail)
    \/ \E l \in Limits, p \in PriorityFloors, st \in DocumentedFilters, fail \in BatchFails :
          JobUpdateProductsBatch(l, p, st, fail)
    \/ \E l \in Limits, fail \in BatchFails : JobUpdateHighPriority(l, fail)
    \/ \E found \in FoundSets, fail \in DiscoverFails : JobDiscover(found, fail)
    \/ DiscoverAllStart
    \/ \E found \in FoundSets, fail \in DiscoverFails : DiscoverAllCategory(found, fail)
    \/ DiscoverAllReturn

\* The jobs find a table with one product of any history and possibly a
\* second, newly discovered one.
JobInit ==
    /\ dbnow = SampleNow
    /\ dbticks = MaxDbTicks
    /\ \E r1 \in MaintRows(1), r2 \in {NoRow, NewRow(2, "catA", SampleNow)} :
          master_products = MaintTable(r1, r2)
    /\ batch_pc = "idle"
    /\ batch_args = NoArgs
    /\ products_to_scrape = <<>>
    /\ batch_idx = 0
    /\ successful_updates = 0
    /\ inactive_at_pull = {}
    /\ run_log = <<>>
    /\ demoted = {}
    /\ nops = 0
    /\ last = Op("init", {}, "", 0, 0, FALSE)

JobSpecInit == JobInit /\ budget = JobOps /\ RLQuiet /\ FTQuiet /\ JBInit /\ SCQuiet
JobSpec == JobSpecInit /\ [][JobNext]_vars

\* The scheduled pipelines over a table of two products, each absent or with
\* some history: old or new, at priority 5 or 8, pending or failed.
MaxRuns == 2
DagNow == 800
DagFailCounts == {0, 4, 5}

DagRow(id, t, boost, nfail) ==
    LET s0 == InsertMasterProduct(EmptyTable, id, "catA", t)
        s1 == BoostCategory(s0, "catA", boost)
        s2 == ApplyMarks(s1, id, [i \in 1..nfail |-> "failed"], t)
    IN  s2[id]

DagRows(id) ==
    {NoRow} \cup {DagRow(id, t, b, n) : t \in {0, DagNow}, b \in {0, SampleBoost},
                                         n \in DagFailCounts}

DagInit ==
    /\ dbnow = DagNow
    /\ dbticks = MaxDbTicks
    /\ batch_pc = "idle"
    /\ batch_args = NoArgs
    /\ products_to_scrape = <<>>
    /\ batch_idx = 0
    /\ successful_updates = 0
    /\ inactive_at_pull = {}
    /\ run_log = <<>>
    /\ demoted = {}
    /\ nops = 0
    /\ budget = 0
    /\ last = Op("init", {}, "", 0, 0, FALSE)

\* The scheduler and the tasks of the three scheduled DAGs.
DagNext ==
    \/ \E dag \in ScheduledDags : DagTrigger(dag)
    \/ \E dag \in ScheduledDags, r \in 1..MaxRuns :
          \E task \in DagTasks(dag) : TaskStart(dag, r, task)
    \/ \E dag \in ScheduledDags, r \in 1..MaxRuns :
          \E task \in DagTasks(dag) : TaskRun(dag, r, task)
    \/ \E dag \in ScheduledDags, r \in 1..MaxRuns : DagRunDone(dag, r)

DagSpecInit ==
    /\ DagInit
    /\ \E r1 \in DagRows(1), r2 \in DagRows(2) : master_products = MaintTable(r1, r2)
    /\ RLQuiet /\ FTQuiet /\ JBInit /\ SCInit
DagSpec == DagSpecInit /\ [][DagNext]_vars

\* The scheduled pipelines, every schedule coming due again and again and
\* every task that can start or finish doing so, over a table with one
\* newly discovered product.
DagFairSpecInit ==
    /\ DagInit
    /\ \E b \in {0, SampleBoost} :
          master_products = MaintTable(DagRow(1, DagNow, b, 0), NoRow)
    /\ RLQuiet /\ FTQuiet /\ JBInit /\ SCInit
DagFairSpec ==
    /\ DagFairSpecInit /\ [][DagNext]_vars
    /\ \A dag \in ScheduledDags :
        /\ WF_vars(DagTrigger(dag))
        /\ WF_vars(\E r \in 1..MaxRuns : DagRunDone(dag, r))
        /\ \A task \in DagTasks(dag) :
            /\ WF_vars(\E r \in 1..MaxRuns : TaskStart(dag, r, task))
            /\ WF_vars(\E r \in 1..MaxRuns : TaskRun(dag, r, task))

\* Discovery and re-discovery, the regular batch over pending products,
\* priority recalculation and the clock, from the empty table.
StarveOps == 4
StarveNext ==
    \/ \E ids \in (SUBSET WQIds) \ {{}} : DiscoverBatch(ids, "catA")
    \/ \E l \in Limits : RunBatchPull(l, MinPriority, "pending")
    \/ \E l \in Limits : RunBatchEmpty(l, MinPriority, "pending")
    \/ \E outcome \in ScrapeOutcomes : RunBatchItem(outcome)
    \/ RunBatchReturn
    \/ \E hot \in HotSets : CalculatePriorities(hot)
    \/ \E d \in DbTickSteps : DbTick(d)

StarveSpecInit == WQInit /\ budget = StarveOps /\ RLQuiet /\ FTQuiet /\ JBInit /\ SCInit
StarveSpec == StarveSpecInit /\ [][StarveNext]_vars

\* The ProxyManager under any sequence of get_proxy and mark_proxy_failed
\* calls.
ProxyNext ==
    \/ ProxyGet
    \/ \E proxy \in ProxyNames : MarkProxyFailed(proxy)

ProxySpecInit == RLQuiet /\ WQInit /\ budget = 0 /\ FTInit /\ JBInit /\ SCQuiet
ProxySpec == ProxySpecInit /\ [][ProxyNext]_vars

\* The scraper making requests: _make_request with the acquire() it awaits
\* first, and the clock.
FetchNext ==
    \/ \E retries \in Retries : FetchStart(retries)
    \/ FetchMustAcquire /\ Call(Scraper)
    \/ AcquireMinuteFull(Scraper)
    \/ AcquireHourFull(Scraper)
    \/ AcquireAdmit(Scraper)
    \/ AcquireWake(Scraper)
    \/ \E d \in TickSteps : Tick(d)
    \/ FetchAcquired
    \/ \E o \in AttemptOutcomes : FetchAttempt(o)

\* Requests are made without proxies, or through two proxies in rotation.
FetchConfig ==
    /\ FTInit
    /\ rotation
    /\ \/ proxy_list = <<>> /\ ~proxy_enabled
       \/ proxy_list = <<"p1", "p2">> /\ proxy_enabled

FetchSpecInit == RLInit /\ clients = {Scraper} /\ WQInit /\ budget = 0 /\ FetchConfig /\ JBInit /\ SCQuiet
FetchSpec == FetchSpecInit /\ [][FetchNext]_vars

\* The event loop runs _make_request and the acquire() it awaits whenever
\* they can take a step, and time advances.
FetchFairSpec ==
    /\ FetchSpecInit /\ [][FetchNext]_vars
    /\ WF_vars(\E d \in TickSteps : Tick(d))
    /\ WF_vars(FetchMustAcquire /\ Call(Scraper))
    /\ WF_vars(AcquireMinuteFull(Scraper))
    /\ WF_vars(AcquireHourFull(Scraper))
    /\ WF_vars(AcquireAdmit(Scraper))
    /\ WF_vars(AcquireWake(Scraper))
    /\ WF_vars(FetchAcquired)
    /\ WF_vars(\E o \in AttemptOutcomes : FetchAttempt(o))


(***************************************************************************)
(* RateLimiter: properties                                                 *)
(***************************************************************************)
\* Every admission so far, of any caller, as <<caller, index>> pairs.
Admissions == {x \in Callers \X (1..(MaxCalls + 1)) : x[2] <= Len(admitted[x[1]])}

\* Number of admissions made less than `window` seconds before time t.
AdmittedWithin(window) ==
    Cardinality({x \in Admissions : now - admitted[x[1]][x[2]] < window})

RecordedWithin(requests, window) ==
    Cardinality({i \in DOMAIN requests : now - requests[i] < window})

\* Admissions that both windows still allow at the current time.
SlotsLeft ==
    LET m == requests_per_minute - AdmittedWithin(MinuteWindow)
        h == requests_per_hour - AdmittedWithin(HourWindow)
    IN  IF m < h THEN m ELSE h

\* The model's clock budget ran out while caller c was still sleeping.
ClockExhausted(c) == pc[c] = "sleep" /\ now < wake[c] /\ nticks = MaxTicks

\* C1: with requests_per_minute = 2 and a single (sequential) client, the
\* three acquire() calls all complete (unless the model's clock stops before
\* the caller's sleep is over), and the third is admitted no earlier than 60
\* seconds after the time recorded for the first.
C1_ThreeSequentialAcquires ==
    (clients = {"a"}) =>
        /\ <>(Len(admitted["a"]) = 3 \/ ClockExhausted("a"))
        /\ [](Len(admitted["a"]) >= 3 =>
                admitted["a"][3] >= admitted["a"][1] + MinuteWindow)

\* C2: in every reachable state at most requests_per_minute admissions lie
\* within the last 60 seconds and at most requests_per_hour within the last
\* 3600 seconds, both among the timestamps the limiter has recorded and among
\* the acquire() calls that have returned.
C2_WindowCaps ==
    /\ RecordedWithin(minute_requests, MinuteWindow) <= requests_per_minute
    /\ RecordedWithin(hour_requests, HourWindow) <= requests_per_hour
    /\ AdmittedWithin(MinuteWindow) <= requests_per_minute
    /\ AdmittedWithin(HourWindow) <= requests_per_hour

\* The minute window is exactly at its cap and a further caller was refused.
C2_Witness ==
    /\ AdmittedWithin(MinuteWindow) = requests_per_minute
    /\ \E c \in Callers : pc[c] = "sleep" /\ wake[c] > now

\* C3: checking the windows and recording the timestamp is one atomic step
\* with respect to the other callers: a step admits at most one caller, an
\* admission uses up exactly one slot, and no caller is admitted while no
\* slot is left (so with one slot left and several callers inside acquire(),
\* only one gets through before a slot expires).
C3_AtomicAdmission ==
    [][ /\ Cardinality({c \in Callers : admitted'[c] # admitted[c]}) <= 1
        /\ (SlotsLeft <= 0 => admitted' = admitted)
        /\ (admitted' # admitted => SlotsLeft' = SlotsLeft - 1) ]_vars

\* Two callers were inside acquire() with one slot left: one was admitted at
\* this instant, the other found the window full.
C3_Witness ==
    \E c, d \in Callers :
        /\ c # d
        /\ Len(admitted[c]) > 0
        /\ admitted[c][Len(admitted[c])] = now
        /\ SlotsLeft = 0
        /\ pc[d] = "sleep"
        /\ wake[d] > now

(***************************************************************************)
(* Work queue: properties                                                  *)
(***************************************************************************)
\* The step just taken is an operation of the given name.
Did(op) == last'.op = op /\ (nops' # nops \/ batch_idx' # batch_idx)

\* The step just taken pulled a non-empty batch.
Pulled == batch_pc = "idle" /\ batch_pc' = "running"

\* The step just taken fetched the page of product id.
Fetched(id) == (Did("batch_fetch") \/ Did("single_fetch")) /\ id \in last'.ids

Range(q) == {q[i] : i \in DOMAIN q}

\* C4: an item with status failed and error_count 5 is skipped after
\* cleanup_failed_products(5), and an item this operation has demoted is in
\* no later result of get_products_to_scrape, also after further
\* update_scrape_status(id, 'failed') calls.
C4_DemotedNeverScheduled ==
    [][ /\ Did("cleanup_failed") /\ last'.n = ErrorThreshold =>
              \A id \in Present(master_products) :
                  /\ master_products[id].scrape_status = "failed"
                  /\ master_products[id].error_count = ErrorThreshold
                  => master_products'[id].scrape_status = "skipped"
        /\ Pulled => Range(products_to_scrape') \cap demoted = {} ]_vars

\* C5: once a row has status skipped it keeps it under every operation, and
\* its page is never fetched again.
C5_SkippedTerminal ==
    [][ \A id \in Present(master_products) :
            master_products[id].scrape_status = "skipped" =>
                /\ master_products'[id] # NoRow
                /\ master_products'[id].scrape_status = "skipped"
                /\ ~Fetched(id) ]_vars

\* The step just taken is a batch insert of the same products, in the same
\* category, as the operation before it.
SecondUpsert == Did("upsert") /\ last'.repeat

SameButDiscovered(r1, r2) ==
    /\ r1.product_id = r2.product_id
    /\ r1.product_url = r2.product_url
    /\ r1.category_id = r2.category_id
    /\ r1.category_name = r2.category_name
    /\ r1.scrape_status = r2.scrape_status
    /\ r1.scrape_priority = r2.scrape_priority
    /\ r1.error_count = r2.error_count
    /\ r1.is_active = r2.is_active
    /\ r1.last_scraped_at = r2.last_scraped_at

C7_RediscoveryFrame ==
    [][ Did("upsert") =>
          \A id \in Present(master_products) :
              /\ master_products'[id] # NoRow
              /\ master_products'[id].scrape_status = master_products[id].scrape_status
              /\ master_products'[id].scrape_priority = master_products[id].scrape_priority
              /\ master_products'[id].error_count = master_products[id].error_count
              /\ master_products'[id].is_active = master_products[id].is_active
              /\ master_products'[id].last_scraped_at = master_products[id].last_scraped_at ]_vars

\* The claim's reading of next_batch: q holds the first min(limit, n) of the n
\* active rows of the given status with priority >= min_priority, by priority
\* descending, then discovered_at ascending.
FirstOfSorted(q, mp, limit, min_priority, status) ==
    LET M == {id \in Present(mp) : /\ mp[id].is_active
                                   /\ mp[id].scrape_status = status
                                   /\ mp[id].scrape_priority >= min_priority}
        n == Cardinality(M)
    IN  /\ Len(q) = IF limit < n THEN limit ELSE n
        /\ Range(q) \subseteq M
        /\ \A i, j \in DOMAIN q : i < j =>
              /\ q[i] # q[j]
              /\ \/ mp[q[i]].scrape_priority > mp[q[j]].scrape_priority
                 \/ /\ mp[q[i]].scrape_priority = mp[q[j]].scrape_priority
                    /\ mp[q[i]].discovered_at <= mp[q[j]].discovered_at
        /\ \A x \in M \ Range(q) : \A i \in DOMAIN q :
              /\ mp[x].scrape_priority <= mp[q[i]].scrape_priority
              /\ mp[x].scrape_priority = mp[q[i]].scrape_priority
                    => mp[x].discovered_at >= mp[q[i]].discovered_at

\* C8: for every limit, priority floor and status, get_products_to_scrape
\* returns a list, and every list it can return is the first min(limit, n)
\* of the matching active rows in priority-descending, discovered_at-ascending
\* order; so is the list a running update_products_batch pulled.
C8_NextBatchOrder ==
    /\ \A l \in Limits, p \in PriorityFloors, st \in Statuses :
          LET R == GetProductsToScrape(master_products, l, p, st)
          IN  /\ R # {}
              /\ \A q \in R : FirstOfSorted(q, master_products, l, p, st)
    /\ batch_pc = "running" /\ batch_idx = 1 /\ last.op = "pull" =>
          FirstOfSorted(products_to_scrape, master_products, batch_args.limit,
                        batch_args.priority_min, batch_args.status_filter)

\* The example of the claim: A = 1 (priority 5, t0), B = 2 (priority 8, t1),
\* C = 3 (priority 8, t0), limit 3: the batch pulled is [C, B, A].
C8_Witness ==
    /\ batch_pc = "running"
    /\ batch_idx = 1
    /\ last.op = "pull"
    /\ batch_args.limit = 3
    /\ products_to_scrape = <<3, 2, 1>>
    /\ master_products[1].scrape_priority = 5
    /\ master_products[2].scrape_priority = 8
    /\ master_products[3].scrape_priority = 8
    /\ master_products[1].discovered_at = 0
    /\ master_products[3].discovered_at = 0
    /\ master_products[2].discovered_at > 0

\* C9: get_products_to_scrape returns no inactive row, whatever the status
\* asked for, and update_products_batch works on no product that was
\* inactive when it pulled its batch.
C9_InactiveExcluded ==
    /\ \A l \in Limits, p \in PriorityFloors, st \in Statuses :
          \A q \in GetProductsToScrape(master_products, l, p, st) :
              \A i \in DOMAIN q : master_products[q[i]].is_active
    /\ batch_pc = "running" => Range(products_to_scrape) \cap inactive_at_pull = {}

\* A batch was pulled while a row of the status and priority asked for was
\* inactive, and the batch has fetched a product since.
C9_Witness ==
    /\ batch_pc = "running"
    /\ batch_idx > 1
    /\ \E id \in inactive_at_pull :
          /\ master_products[id] # NoRow
          /\ ~master_products[id].is_active
          /\ master_products[id].scrape_status = batch_args.status_filter
          /\ master_products[id].scrape_priority >= batch_args.priority_min

\* C10: every row has 1 <= scrape_priority <= 10 in every reachable state,
\* after the rules of calculate_priorities and after boost_category_priority
\* with any integer boost_amount.
C10_PriorityRange ==
    \A id \in Present(master_products) :
        /\ master_products[id].scrape_priority >= MinPriority
        /\ master_products[id].scrape_priority <= MaxPriority

(***************************************************************************)
(* update_products_batch: properties                                       *)
(***************************************************************************)
\* The step just taken is the return of update_products_batch after its loop.
Returned == batch_pc = "running" /\ batch_pc' = "idle"

\* Iteration i of the running batch fetched a product and stored it.
Succeeded(e) == e.outcome = "product" /\ InsertProduct(e.outcome)

\* Iteration i of the running batch failed: scrape_product raised, returned
\* None (fetch error, page not parsed), or the product was not stored.
FailedItem(e) == ~Succeeded(e)

\* C11: whatever the outcome of the items before it, every item of the pulled
\* list is processed, in order, and reaches update_scrape_status; an item
\* whose fetch raised or returned nothing is marked failed in the table; the
\* batch returns only after the whole list, and returns the number of items
\* that succeeded.
C11_FailureIsolation ==
    [][ /\ batch_pc' = "running" =>
              /\ Len(run_log') = batch_idx' - 1
              /\ \A i \in DOMAIN run_log' :
                    /\ run_log'[i].id = products_to_scrape'[i]
                    /\ Len(run_log'[i].marks) >= 1
        /\ Did("batch_fetch") =>
              LET e == run_log'[Len(run_log')]
              IN  e.outcome \in {"raise", "none"} =>
                    /\ e.marks = <<"failed">>
                    /\ master_products'[e.id].scrape_status = "failed"
                    /\ master_products'[e.id].error_count
                          = master_products[e.id].error_count + 1
        /\ Returned =>
              /\ Len(run_log) = Len(products_to_scrape)
              /\ last'.ret = Cardinality({i \in DOMAIN run_log : Succeeded(run_log[i])}) ]_vars

\* A batch over the three products [1, 2, 3] (in some order of the pull) in
\* which the second fetch raised: the first and the third item were processed
\* and marked all the same.
C11_Witness ==
    /\ batch_pc = "running"
    /\ Len(products_to_scrape) = 3
    /\ Len(run_log) = 3
    /\ run_log[2].outcome = "raise"
    /\ run_log[1].outcome = "product"
    /\ run_log[3].outcome = "product"
    /\ \A i \in 1..3 : /\ Len(run_log[i].marks) = 1
                       /\ master_products[run_log[i].id].scrape_status = run_log[i].marks[1]

FetchEnded == fetch_pc = "idle" /\ nfetch > 0

AllRaised == \A i \in DOMAIN attempt_log : attempt_log[i] = "exception"

\* C13: _make_request never ends by an exception reaching its caller: when it
\* ends, whatever each attempt did, it has returned a ScrapingResult, and
\* when every attempt raised the result has status_code 0 and an error that
\* is not None.
C13_NeverRaises ==
    FetchEnded =>
        /\ fetch_result # NoResult
        /\ ~fetch_result.raised
        /\ AllRaised => /\ fetch_result.status_code = 0
                        /\ fetch_result.error # <<>>

\* A request with retries = 3 whose four attempts all raised has returned.
C13_Witness ==
    /\ FetchEnded
    /\ fetch_retries = 3
    /\ Len(attempt_log) = 4
    /\ AllRaised
    /\ fetch_result = ScrapingResult(0, <<"refused">>)

\* The attempts and waits of a request: at most retries + 1 attempts, a wait
\* of 2^k seconds after failed attempt k when it is not the last, no wait
\* after the final attempt.
FetchSchedule ==
    /\ Len(attempt_log) <= fetch_retries + 1
    /\ Len(slept) <= fetch_retries
    /\ \A i \in DOMAIN slept : slept[i] = 2^(i - 1)
    /\ fetch_pc = "attempt" => Len(slept) = Len(attempt_log)
    /\ FetchEnded /\ fetch_result # NoResult => Len(slept) = Len(attempt_log) - 1

\* C14: a _make_request call terminates, after at most retries + 1 attempts
\* with waits of 2^k seconds between them and none after the last (it may
\* only be left waiting for a clock that no longer advances).
C14_FetchTerminates ==
    /\ []FetchSchedule
    /\ [](fetch_pc # "idle" => <>(fetch_pc = "idle" \/ ClockExhausted(Scraper)))

\* C15: every result _make_request returns has either status_code 200 and no
\* error, or an error, and not both.
C15_SuccessOrError ==
    FetchEnded /\ fetch_result # NoResult /\ ~fetch_result.raised =>
        ((fetch_result.status_code = 200 /\ fetch_result.error = <<>>)
            # (fetch_result.error # <<>>))

(***************************************************************************)
(* ProxyManager: properties                                                *)
(***************************************************************************)
Configured == Range(proxy_list)

\* The step just taken is a get_proxy() call.
GotProxy == ngets' = ngets + 1

\* C16: while a configured proxy is outside the failure set, get_proxy()
\* returns no proxy of the failure set and leaves the set as it is; a
\* get_proxy() call made when every configured proxy is in the set empties
\* the set and returns a configured proxy; no other step removes a proxy
\* from the set.
C16_FailedProxiesExcluded ==
    [][ /\ GotProxy /\ Configured \ failed_proxies # {} =>
              /\ got' \notin failed_proxies
              /\ failed_proxies' = failed_proxies
        /\ GotProxy /\ Configured # {} /\ Configured \subseteq failed_proxies =>
              /\ failed_proxies' = {}
              /\ got' \in Configured
        /\ ~GotProxy => failed_proxies \subseteq failed_proxies' ]_vars

\* Two proxies are configured, one was marked failed, and a get_proxy() call
\* made after another one returned the proxy that is left.
C16_Witness ==
    /\ proxy_list = <<"p1", "p2">>
    /\ ngets >= 2
    /\ failed_before = {"p1"}
    /\ failed_proxies = {"p1"}
    /\ got = "p2"

\* C17: with a non-empty proxy list every get_proxy() call has a result and
\* the result is a configured proxy, whatever was marked failed before; the
\* result is None exactly when the list is empty.
C17_AlwaysAProxy ==
    /\ GetProxy(proxy_list, failed_proxies, current_index, rotation) # {}
    /\ \A r \in GetProxy(proxy_list, failed_proxies, current_index, rotation) :
          IF proxy_list = <<>> THEN r.proxy = NullProxy ELSE r.proxy \in Configured
    /\ got # NoCall => IF proxy_list = <<>> THEN got = NullProxy ELSE got \in Configured

\* A get_proxy() call made when all three configured proxies were marked
\* failed returned one of them.
C17_Witness ==
    /\ proxy_list = <<"p1", "p2", "p3">>
    /\ failed_before = {"p1", "p2", "p3"}
    /\ got \in Configured
    /\ failed_proxies = {}

(***************************************************************************)
(* Work queue: status, error count and ageing                              *)
(***************************************************************************)
\* The row of id is as before but for the fields named in `fields`.
SameExcept(r1, r2, fields) ==
    /\ DOMAIN r1 = DOMAIN r2
    /\ \A f \in DOMAIN r1 \ fields : r1[f] = r2[f]

\* C18: update_scrape_status(id, 'failed') sets the status to failed and adds
\* exactly 1 to error_count; with 'scraped' it sets the status, stamps
\* last_scraped_at with the current time and leaves error_count; with any
\* other status it sets the status and nothing else; in each case no other
\* field of the row and no other row changes.
C18_MarkStatusEffect ==
    [][ Did("mark_status") =>
          \E id \in Ids :
              /\ last'.ids = {id}
              /\ \A other \in Ids \ {id} : master_products'[other] = master_products[other]
              /\ master_products[id] = NoRow => master_products'[id] = NoRow
              /\ master_products[id] # NoRow =>
                    LET old == master_products[id]
                        new == master_products'[id]
                    IN  /\ new.scrape_status = last'.s
                        /\ last'.s = "failed" =>
                              /\ new.error_count = old.error_count + 1
                              /\ SameExcept(old, new, {"scrape_status", "error_count"})
                        /\ last'.s = "scraped" =>
                              /\ new.last_scraped_at = dbnow
                              /\ SameExcept(old, new, {"scrape_status", "last_scraped_at"})
                        /\ last'.s \notin {"failed", "scraped"} =>
                              SameExcept(old, new, {"scrape_status"}) ]_vars

\* A product was marked failed for the second time while another product is
\* in the table.
C18_Witness ==
    /\ last.op = "mark_status"
    /\ last.s = "failed"
    /\ \E id \in last.ids :
          /\ master_products[id] # NoRow
          /\ master_products[id].scrape_status = "failed"
          /\ master_products[id].error_count = 2
          /\ \E other \in Present(master_products) : other # id

\* The step just taken called update_scrape_status(id, 'failed'), directly or
\* from update_products_batch or update_single_product.
MarkedFailed(id) ==
    \/ Did("mark_status") /\ last'.s = "failed" /\ id \in last'.ids
    \/ Fetched(id)

\* C19: the error_count of a row that exists changes only in a step that
\* calls update_scrape_status(id, 'failed'), and then by exactly 1; a batch
\* insert of a known product, a mark with another status,
\* mark_inactive_products, cleanup_failed_products and the priority jobs
\* leave it as it is.
C19_ErrorCountFrame ==
    [][ \A id \in Present(master_products) :
            /\ master_products'[id] # NoRow
            /\ master_products'[id].error_count # master_products[id].error_count =>
                  /\ MarkedFailed(id)
                  /\ master_products'[id].error_count = master_products[id].error_count + 1 ]_vars

\* The rows mark_inactive_products(days) is to deactivate: pending, active,
\* discovered more than `days` days before now.
AgedOut(mp, days, t) ==
    {id \in Present(mp) : /\ mp[id].scrape_status = "pending"
                          /\ mp[id].is_active
                          /\ t - mp[id].discovered_at > days * HoursPerDay}

\* C20: mark_inactive_products(days) sets is_active to false in exactly the
\* rows that are pending, active and older than `days` days, changes no other
\* field of them, and leaves every other row as it is.
C20_AgeOutFrame ==
    [][ Did("mark_inactive") =>
          \A id \in Ids :
              IF id \in AgedOut(master_products, last'.n, dbnow)
              THEN /\ ~master_products'[id].is_active
                   /\ SameExcept(master_products[id], master_products'[id], {"is_active"})
              ELSE master_products'[id] = master_products[id] ]_vars

\* mark_inactive_products has deactivated an old pending row and left an
\* equally old row that is not pending active.
C20_Witness ==
    /\ last.op = "mark_inactive"
    /\ \E id \in last.ids :
          /\ ~master_products[id].is_active
          /\ master_products[id].scrape_status = "pending"
          /\ \E other \in Present(master_products) :
                /\ master_products[other].is_active
                /\ master_products[other].scrape_status # "pending"
                /\ master_products[other].discovered_at = master_products[id].discovered_at

(***************************************************************************)
(* Maintenance jobs: properties                                            *)
(***************************************************************************)
\* C21: cleanup_failed_products(error_threshold) sets to skipped exactly the
\* rows with status failed and error_count >= error_threshold, changes no
\* other field of them, and leaves every other row (another status whatever
\* its error_count, failed below the threshold) as it is.
C21_DemoteFrame ==
    [][ Did("cleanup_failed") =>
          \A id \in Ids :
              IF /\ master_products[id] # NoRow
                 /\ master_products[id].scrape_status = "failed"
                 /\ master_products[id].error_count >= last'.n
              THEN /\ master_products'[id].scrape_status = "skipped"
                   /\ SameExcept(master_products[id], master_products'[id], {"scrape_status"})
              ELSE master_products'[id] = master_products[id] ]_vars

\* cleanup_failed_products has demoted a failed row and left alone a pending
\* row whose error_count is at the threshold or above.
C21_Witness ==
    /\ last.op = "cleanup_failed"
    /\ \E id \in last.ids :
          /\ master_products[id].scrape_status = "skipped"
          /\ master_products[id].error_count >= last.n
          /\ \E other \in Present(master_products) :
                /\ other \notin last.ids
                /\ master_products[other].scrape_status = "pending"
                /\ master_products[other].error_count >= last.n

\* Rows whose is_active went from true to false in the step.
Deactivated(mp1, mp2) ==
    {id \in Present(mp1) : mp1[id].is_active /\ ~mp2[id].is_active}

\* Rows whose status went from failed to skipped in the step.
Demoted(mp1, mp2) ==
    {id \in Present(mp1) : /\ mp1[id].scrape_status = "failed"
                            /\ mp2[id].scrape_status = "skipped"}

\* C22: mark_inactive_products returns the number of rows it deactivated in
\* the call, and cleanup_failed_products the number of rows it turned from
\* failed to skipped in the call (so 0 when called again at once).
C22_ReturnsRowsChanged ==
    [][ /\ Did("mark_inactive") =>
              last'.ret = Cardinality(Deactivated(master_products, master_products'))
        /\ Did("cleanup_failed") =>
              last'.ret = Cardinality(Demoted(master_products, master_products')) ]_vars

\* The step just taken repeats the maintenance operation before it, with the
\* same argument.
Repeated(op) == Did(op) /\ last.op = op /\ last.n = last'.n

\* C23: a second mark_inactive_products(days) or cleanup_failed_products(th)
\* right after the first, at the same time, changes nothing in the table;
\* applied to the table at hand each is idempotent, and the two give the
\* same table in either order.
C23_MaintenanceIdempotent ==
    [][ /\ Repeated("mark_inactive") => master_products' = master_products
        /\ Repeated("cleanup_failed") => master_products' = master_products
        /\ \A days \in DayThresholds, th \in ErrorThresholds :
              LET a == MarkInactive(master_products, days, dbnow)
                  d == CleanupFailed(master_products, th)
              IN  /\ MarkInactive(a, days, dbnow) = a
                  /\ CleanupFailed(d, th) = d
                  /\ CleanupFailed(a, th) = MarkInactive(d, days, dbnow) ]_vars

\* cleanup_failed_products has run twice with the same threshold on a table
\* in which it demotes a row and mark_inactive_products deactivates another:
\* the second run changed nothing.
C23_Witness ==
    /\ nops = 2
    /\ last.op = "cleanup_failed"
    /\ last.ids = {}
    /\ \E id \in demoted : master_products[id].error_count >= last.n
    /\ MarkInactive(master_products, 1, dbnow) # master_products

(***************************************************************************)
(* calculate_priorities: properties                                        *)
(***************************************************************************)
\* The three rules as the claim states them, on one priority.
RuleBoost(p) == IF p + CategoryBoost > MaxPriority THEN MaxPriority ELSE p + CategoryBoost
RulePenalty(p) == IF p - ErrorPenalty < MinPriority THEN MinPriority ELSE p - ErrorPenalty
RuleNew(p) == IF p < NewProductPriority THEN NewProductPriority ELSE p

WithinLastDay(row, t) == row.discovered_at >= t - HoursPerDay

\* c(b(a(p))) for the rules that match the row: (a) pending in a boosted
\* category, (b) pending with error_count >= 3, (c) pending, discovered
\* within the last day.
Recalculated(row, hot, t) ==
    LET pa == IF row.scrape_status = "pending" /\ row.category_id \in hot
              THEN RuleBoost(row.scrape_priority) ELSE row.scrape_priority
        pb == IF row.scrape_status = "pending" /\ row.error_count >= ErrorPenaltyFrom
              THEN RulePenalty(pa) ELSE pa
        pc3 == IF row.scrape_status = "pending" /\ WithinLastDay(row, t)
               THEN RuleNew(pb) ELSE pb
    IN  pc3

AcquiredByFetch == Len(admitted[Scraper]) - acq_base

\* C26: every session.get() attempt of a _make_request call, the first and
\* each retry, comes after an acquire() call of its own that has returned:
\* the call never has made more attempts than acquire() calls.
C26_AcquireBeforeEachAttempt == Len(attempt_log) <= AcquiredByFetch

\* The step just taken is an attempt that raised and is followed by another
\* attempt of the same call.
RetryAfterRaise == fetch_pc = "attempt" /\ fetch_pc' = "attempt" /\ attempt' = attempt + 1

\* C27: with proxies enabled and two or more configured, when an attempt
\* through proxy P raises, P is in the failure set before the next attempt
\* and the next attempt goes through another proxy than P.
C27_RetryThroughOtherProxy ==
    [][ RetryAfterRaise /\ proxy_enabled /\ Len(proxy_list) >= 2 =>
          /\ fetch_proxy \in failed_proxies'
          /\ fetch_proxy' # fetch_proxy ]_vars

\* C28: a _make_request call that ends with a status code other than 200 has
\* made all its retries + 1 attempts and returns a result whose error is set.
C28_Non200IsTransportError ==
    FetchEnded /\ fetch_result # NoResult /\ ~fetch_result.raised
               /\ fetch_result.status_code # 200 =>
        /\ Len(attempt_log) = fetch_retries + 1
        /\ fetch_result.error # <<>>

\* C29: with rotation, while two or more configured proxies are outside the
\* failure set, a get_proxy() call never returns the proxy the call before it
\* returned, whatever mark_proxy_failed calls came between the two.
C29_RoundRobin ==
    [][ /\ GotProxy
        /\ rotation
        /\ got \in Configured
        /\ Cardinality(Configured \ failed_proxies) >= 2
        => got' # got ]_vars

(***************************************************************************)
(* Job entry points: properties                                            *)
(***************************************************************************)
\* C24: no job call ends by an exception reaching its caller, and a job call
\* in which a store call failed returns 0 (discover_all_category_ids: a map
\* whose entries are 0); no job is left half-way.
C24_JobBoundary ==
    /\ ~job_out.raised
    /\ job_out.fail # NoFail =>
          IF job_out.job = "discover_all_category_ids"
          THEN \A name \in DOMAIN job_out.ret : job_out.ret[name] = 0
          ELSE job_out.ret = 0
    /\ job_out.job \notin {"none", "discover_all_category_ids"} => batch_pc = "idle"

\* calculate_priorities has returned 0 after its third UPDATE raised, the
\* first one (the boost from 5 to 7) having been applied.
C24_Witness ==
    /\ nops = 1
    /\ job_out.job = "calculate_priorities"
    /\ job_out.fail = "update3"
    /\ job_out.ret = 0
    /\ ~job_out.raised
    /\ \E id \in Present(master_products) :
          master_products[id].scrape_priority = InitialPriority + CategoryBoost

\* Position of the category of that name in ALIEXPRESS_CATEGORIES.
PosOf(name) ==
    CHOOSE i \in DOMAIN ALIEXPRESS_CATEGORIES : ALIEXPRESS_CATEGORIES[i].category_name = name

\* Positions of the categories without parent.
TopLevelPositions ==
    {i \in DOMAIN ALIEXPRESS_CATEGORIES : ALIEXPRESS_CATEGORIES[i].parent_id = ""}

VisitedNames == {disc_visits[i].category_name : i \in DOMAIN disc_visits}

\* C25: discover_all_category_ids calls discover_category_ids for the
\* categories without parent only, in the order of the list, each once; the
\* results have one entry per category visited, 0 where the discovery
\* failed; whatever failed, the loop reaches every top-level category before
\* the job returns, and the map returned has exactly their names as keys.
C25_DiscoverAll ==
    /\ \A i \in DOMAIN disc_visits : PosOf(disc_visits[i].category_name) \in TopLevelPositions
    /\ \A i, j \in DOMAIN disc_visits :
          i < j => PosOf(disc_visits[i].category_name) < PosOf(disc_visits[j].category_name)
    /\ DOMAIN disc_results = VisitedNames
    /\ \A i \in DOMAIN disc_visits :
          disc_visits[i].fail # NoFail => disc_results[disc_visits[i].category_name] = 0
    /\ job_out.job = "discover_all_category_ids" /\ disc_pc = "idle" =>
          /\ {PosOf(n) : n \in VisitedNames} = TopLevelPositions
          /\ Len(disc_visits) = Cardinality(TopLevelPositions)
          /\ DOMAIN job_out.ret = {ALIEXPRESS_CATEGORIES[i].category_name : i \in TopLevelPositions}

\* discover_all_category_ids has returned after the discovery of its first
\* category failed and the later ones were still visited.
C25_Witness ==
    /\ job_out.job = "discover_all_category_ids"
    /\ disc_pc = "idle"
    /\ Len(disc_visits) = 3
    /\ disc_visits[1].fail = "connect"
    /\ disc_visits[2].fail = NoFail
    /\ disc_visits[3].fail = NoFail
    /\ job_out.ret["Electronics"] = 0

(***************************************************************************)
(* update_high_priority_products: properties                               *)
(***************************************************************************)
\* A call of update_high_priority_products has just returned.
HighPriorityStep ==
    /\ nops' = nops + 1
    /\ disc_pc' = "idle"
    /\ job_out'.job = "update_high_priority_products"

\* C31: update_high_priority_products(limit) is update_products_batch(limit,
\* 8, 'pending'): from any table both can fetch the same lists in the same
\* order, leave the same tables and return the same values; every call of
\* the job is such a call of the batch, and it fetches no product whose
\* priority is below 8.
C31_HighPriorityIsBatch ==
    /\ [](\A limit \in Limits, fail \in BatchFails :
             /\ HighPriorityCalls(master_products, limit, fail, dbnow)
                   = BatchCalls(master_products, limit, 8, "pending", fail, dbnow)
             /\ \A r \in HighPriorityCalls(master_products, limit, fail, dbnow) :
                   \A i \in DOMAIN r.fetched :
                      master_products[r.fetched[i]].scrape_priority >= 8)
    /\ [][HighPriorityStep =>
             \E limit \in Limits :
                \E r \in BatchCalls(master_products, limit, 8, "pending", job_out'.fail, dbnow) :
                   /\ master_products' = r.mp
                   /\ job_out'.ret = r.out.ret
                   /\ job_out'.raised = r.out.raised]_vars

\* update_high_priority_products has fetched the newly discovered product 2,
\* which calculate_priorities had raised to 8, and has left the pending
\* product 1, whose priority is below 8.
C31_Witness ==
    /\ job_out.job = "update_high_priority_products"
    /\ job_out.fail = NoFail
    /\ master_products[2] # NoRow
    /\ master_products[2].scrape_status = "failed"
    /\ master_products[2].error_count = 1
    /\ master_products[2].scrape_priority >= 8
    /\ master_products[1] # NoRow
    /\ master_products[1].scrape_status = "pending"
    /\ master_products[1].is_active
    /\ master_products[1].scrape_priority < 8

(***************************************************************************)
(* Work queue: creation and deletion of rows                               *)
(***************************************************************************)
\* C33: a product that enters master_products, and every row that
\* batch_insert_master_products writes, has scrape_status pending,
\* scrape_priority 5, error_count 0 and is_active true; no operation removes
\* a product_id from the table.
C33_CreatedPendingNeverDeleted ==
    [][ /\ Present(master_products) \subseteq Present(master_products')
        /\ \A id \in Ids :
              \/ id \in Present(master_products') \ Present(master_products)
              \/ Did("upsert") /\ id \in last'.ids
              => /\ master_products'[id].scrape_status = "pending"
                 /\ master_products'[id].scrape_priority = 5
                 /\ master_products'[id].error_count = 0
                 /\ master_products'[id].is_active ]_vars

\* Product 1 is still in the table after it was discovered and marked
\* failed; product 2 has just been inserted.
C33_Witness ==
    /\ last.op = "upsert"
    /\ last.ids = {2}
    /\ master_products[2] # NoRow
    /\ master_products[2].scrape_priority = 5
    /\ master_products[1] # NoRow
    /\ master_products[1].scrape_status = "failed"
    /\ master_products[1].error_count = 1

(***************************************************************************)
(* update_products_batch: delay between products                           *)
(***************************************************************************)
\* C34: in update_products_batch, the iteration of every product that is
\* followed by another product of the batch has slept, whatever its outcome.
C34_DelayBetweenItems ==
    \A i \in DOMAIN run_log :
       i < Len(run_log) =>
          /\ run_log[i].sleeps # <<>>
          /\ \A k \in DOMAIN run_log[i].sleeps : run_log[i].sleeps[k] > 0

(***************************************************************************)
(* RateLimiter: concurrent callers                                         *)
(***************************************************************************)
\* C35: with two concurrent callers of acquire() and time advancing, every
\* caller inside acquire(), whether it waits for a slot of a full window or
\* for the lock, is eventually admitted (unless the model's clock stops
\* before a sleep is over).
C35_EveryCallerAdmitted ==
    (clients = {"a", "b"}) =>
        \A c \in Callers :
           (pc[c] # "idle") ~> (pc[c] = "idle" \/ \E d \in Callers : ClockExhausted(d))

(***************************************************************************)
(* prioritize_products: return values                                      *)
(***************************************************************************)
\* Rows the UPDATEs of calculate_priorities can address: the pending ones.
PendingRows(mp) == {id \in Present(mp) : mp[id].scrape_status = "pending"}

\* Rows the UPDATE of boost_category_priority addresses.
BoostRows(mp, cat) ==
    {id \in PendingRows(mp) : mp[id].category_id = cat /\ mp[id].is_active}

\* C39: calculate_priorities and boost_category_priority return the number of
\* products whose priority the call updated: at least the rows whose
\* scrape_priority the call changed, at most the rows its UPDATEs address.
C39_ReturnsRowsUpdated ==
    [][ /\ Did("calculate_priorities") =>
              /\ last'.ret >= Cardinality(Changed(master_products, master_products'))
              /\ last'.ret <= Cardinality(PendingRows(master_products))
        /\ Did("boost_category") =>
              /\ last'.ret >= Cardinality(Changed(master_products, master_products'))
              /\ last'.ret <= Cardinality(BoostRows(master_products, last'.s)) ]_vars

(***************************************************************************)
(* discover_category_ids: return value                                     *)
(***************************************************************************)
\* C40: discover_category_ids returns the number of rows inserted for the
\* products found on the pages of the category, and it returns 0 exactly
\* when no product was found or a fetch or store call failed.
C40_DiscoverCount ==
    job_out.job = "discover_category_ids" =>
        /\ job_out.fail = NoFail => job_out.ret = Cardinality(job_out.found)
        /\ job_out.ret = 0 <=> (job_out.found = {} \/ job_out.fail # NoFail)

(***************************************************************************)
(* Scheduled pipelines: properties                                         *)
(***************************************************************************)
\* The step just taken started the task in run r of the DAG.
Started(dag, r, task) ==
    /\ Len(dag_runs'[dag]) = Len(dag_runs[dag])
    /\ r \in DOMAIN dag_runs[dag]
    /\ dag_runs[dag][r].tasks[task] = "none"
    /\ dag_runs'[dag][r].tasks[task] = "running"

\* The task of run r of the DAG has finished.
Finished(dag, r, task) == dag_runs[dag][r].tasks[task] = "success"

\* C32: in a run of the discovery DAG calculate_priorities starts only after
\* discover_all_categories has finished; in a run of the update DAG
\* update_regular_batch starts only after update_high_priority_batch has
\* finished and mark_inactive_products only after update_regular_batch has
\* finished; no scheduled DAG has more than one active run.
C32_PipelineOrder ==
    /\ [](\A dag \in ScheduledDags : Len(dag_runs[dag]) <= 1)
    /\ [][\A r \in 1..MaxRuns :
            /\ Started("master_product_discovery", r, "calculate_priorities") =>
                  Finished("master_product_discovery", r, "discover_all_categories")
            /\ Started("master_product_updates", r, "update_regular_batch") =>
                  Finished("master_product_updates", r, "update_high_priority_batch")
            /\ Started("master_product_updates", r, "mark_inactive_products") =>
                  /\ Finished("master_product_updates", r, "update_regular_batch")
                  /\ Finished("master_product_updates", r, "update_high_priority_batch")]_vars

\* A run of each of the two DAGs is at its last task: calculate_priorities and
\* mark_inactive_products are running, the tasks before them have finished.
C32_Witness ==
    /\ Len(dag_runs["master_product_discovery"]) = 1
    /\ dag_runs["master_product_discovery"][1].tasks["discover_all_categories"] = "success"
    /\ dag_runs["master_product_discovery"][1].tasks["calculate_priorities"] = "running"
    /\ Len(dag_runs["master_product_updates"]) = 1
    /\ dag_runs["master_product_updates"][1].tasks["update_high_priority_batch"] = "success"
    /\ dag_runs["master_product_updates"][1].tasks["update_regular_batch"] = "success"
    /\ dag_runs["master_product_updates"][1].tasks["mark_inactive_products"] = "running"

C36_FailingItemSkipped ==
    \A id \in Ids :
       (/\ master_products[id] # NoRow
        /\ master_products[id].is_active
        /\ master_products[id].scrape_status = "pending")
       ~> (master_products[id] # NoRow /\ master_products[id].scrape_status = "skipped")

(***************************************************************************)
(* Work queue: order of fetching within a priority tier                    *)
(***************************************************************************)
\* Position of product id in the list q, or 0.
IndexIn(q, id) == IF id \in Range(q) THEN CHOOSE i \in DOMAIN q : q[i] = id ELSE 0

\* C37: when the regular batch pulls, a pending active product is not left
\* behind a product of the same priority that was first discovered later: it
\* is in the list too, and before it.
C37_OldestFirstInTier ==
    [][ Pulled =>
          \A b \in Range(products_to_scrape') :
             \A a \in Matching(master_products, MinPriority, "pending") :
                /\ master_products[a].scrape_priority = master_products[b].scrape_priority
                /\ first_seen[a] < first_seen[b]
                => /\ a \in Range(products_to_scrape')
                   /\ IndexIn(products_to_scrape', a) < IndexIn(products_to_scrape', b) ]_vars

====
